---- MODULE Spec2Model ----
(***************************************************************************)
(* A model of src/app.py (the Leonar scoring tool): the profile utilities  *)
(* (deduplicate_profiles, exclude_existing_profiles, filter_by_location),  *)
(* the boolean query sanitizer, the LinkedIn daily usage counter and the   *)
(* LinkedIn paginated search, the scoring merge and the push to Leonar,    *)
(* leonar_request and the Leonar Source / CRM paginated search, the       *)
(* criteria extraction of "Analyser le brief", the provider calls made     *)
(* without leonar_request, two sessions sharing the usage file, a run     *)
(* from the end of the search to the push, the LinkedIn loop with no limit *)
(* on its turns, and one session with its project field, runs and pushes.  *)
(*                                                                         *)
(* Python strings are modelled as sequences of one-character strings, so   *)
(* that lower(), strip(), split() and the regular expressions act on       *)
(* characters.  Each part of the program has its own specification over    *)
(* its own group of variables; the other groups stay at their idle value.  *)
(***************************************************************************)
EXTENDS Integers, Sequences, FiniteSets, TLC

VARIABLES
    \* ---- profile utilities (pure functions applied to drawn inputs)
    profiles,           \* the input list of profiles
    existing_entries,   \* the project's existing entries
    region,             \* the free-text region
    unique,             \* deduplicate_profiles' result
    new_profiles,       \* exclude_existing_profiles' first result
    skipped,            \* exclude_existing_profiles' second result
    matched,            \* filter_by_location's first result
    excluded,           \* filter_by_location's second result
    utilPc,             \* "input" before the call, "done" after it
    \* ---- sanitize_boolean_query
    q,                  \* the current query string
    q_prev,             \* the string the last call was applied to
    sanCalls,           \* how many times the sanitizer has been applied
    \* ---- the LinkedIn usage counter and the LinkedIn paginated search
    usage_file,         \* _USAGE_FILE: [kind, date, count]
    today,              \* date.today()
    fs_writable,        \* whether _USAGE_FILE can be written
    max_profiles,       \* the slider's value, clamped by the run
    all_profiles,       \* the profiles collected so far
    page,               \* the page the next request asks for
    runPc,              \* where the run is
    notice,             \* the last st.error / st.warning of the run
    start_count,        \* history: get_linkedin_count() when the run began
    returned_total,     \* history: profiles returned by the pages so far
    page_requests,      \* history: linkedin_search calls issued so far
    \* ---- Phase 2: scoring, the merge, the session
    filtered_profiles,  \* all_profiles as it enters Phase 2
    all_scores,         \* the score entries returned so far
    batch_i,            \* i of the scoring loop
    scored_profiles,    \* st.session_state["scored_profiles"]
    scoring_done,       \* st.session_state["scoring_done"]
    scorePc,            \* where Phase 2 is
    model_calls,        \* history: the batches sent to the model
    \* ---- the push to Leonar
    min_score_push,     \* the "Score minimum pour push" slider
    profiles_to_push,   \* the scored profiles at or above it
    contact_ids,        \* the contact ids returned so far
    added_total,        \* the sum of the "added" counts returned so far
    push_i,             \* i of the batch loop
    note_idx,           \* idx of the notes loop
    write_calls,        \* history: the batch of each add-to-project call
    note_log,           \* history: the add_note_to_contact calls
    note_failed,        \* history: some add_note_to_contact call has raised
    pushPc,             \* where the push is
    \* ---- leonar_request: one call and its retry loop
    attempt,            \* attempt of the for loop
    responses,          \* history: the responses the call has received
    sleeps,             \* history: the time.sleep calls, by line and seconds
    reqPc,              \* "call" in the loop, "returned" or "raised" after it
    req_error,          \* the message of the exception raised
    \* ---- the Leonar Source / Contacts CRM paginated search
    page_log,           \* history: the pages received, [page, n, has_more]
    total_count,        \* the "total_count" the provider's pages report
    \* ---- the usage counter called on any file content
    usagePc,            \* "ready", then "returned" or "raised" by the last call
    usage_out,          \* the last counter call and what it returned
    usage_ops,          \* how many counter calls have been made
    \* ---- the criteria extraction (Analyser le brief)
    job_desc_given,     \* whether the job description is filled in
    session_criteria,   \* st.session_state["criteria"], NoCriteria if absent
    critPc,             \* where the handler is
    crit_calls,         \* history: calls made to the model
    crit_notice,        \* the handler's st.success / st.error
    form_defaults,      \* the criteria keys the form filled with a default
    \* ---- the provider calls made with requests.post / requests.get
    plain_call,         \* the function called
    plain_responses,    \* history: the responses the call has received
    offset,             \* offset of get_project_entries
    all_entries,        \* how many entries get_project_entries has gathered
    plainPc,            \* "call" inside it, "returned" or "raised" after it
    \* ---- two sessions adding to the usage counter
    sess_pc,            \* per session: "ready", "loaded" (data read), "done"
    sess_data,          \* per session: data, as _load_usage returned it
    sess_n,             \* per session: the n of each add_linkedin_count call
    \* ---- one session: the project field, its runs and its pushes
    project_input,      \* selected_project_id, the value of "ID du projet"
    session_project,    \* st.session_state["selected_project_id"]
    write_projects,     \* history: the project of each add-to-project call
    session_runs,       \* how many runs of "Lancer recherche + scoring" ended
    session_pushes      \* how many times the push button was pressed

utilVars == <<profiles, existing_entries, region, unique, new_profiles,
              skipped, matched, excluded, utilPc>>
sanVars == <<q, q_prev, sanCalls>>
runVars == <<usage_file, today, fs_writable, max_profiles, all_profiles, page,
             runPc, notice, start_count, returned_total, page_requests>>
scoreVars == <<filtered_profiles, all_scores, batch_i, scored_profiles,
               scoring_done, scorePc, model_calls>>
pushVars == <<min_score_push, profiles_to_push, contact_ids, added_total,
              push_i, note_idx, write_calls, note_log, note_failed, pushPc>>
reqVars == <<attempt, responses, sleeps, reqPc, req_error>>
usageVars == <<usagePc, usage_out, usage_ops>>
critVars == <<job_desc_given, session_criteria, critPc, crit_calls, crit_notice,
              form_defaults>>
srcVars == <<page_log, total_count>>
plainVars == <<plain_call, plain_responses, offset, all_entries, plainPc>>
sessVars == <<sess_pc, sess_data, sess_n>>
projVars == <<project_input, session_project, write_projects, session_runs,
              session_pushes>>
lateVars == <<plainVars, sessVars, projVars>>
newVars == <<reqVars, srcVars, usageVars, critVars, lateVars>>
vars == <<utilVars, sanVars, runVars, scoreVars, pushVars, newVars>>

(***************************************************************************)
(* Python values                                                           *)
(***************************************************************************)
\* None (also: a key that is absent, which .get() turns into None).  It is
\* not a string: its only element is not a character.
NoneVal == <<"None">>

\* (x or ""): None and the empty string both become "".
OrEmpty(x) == IF x = NoneVal THEN <<>> ELSE x

\* The characters str.isspace() holds of, among those the model uses.
Whitespace == {" ", "\t", "\n"}

\* str.lower() on one character.
LowerChar(c) ==
    CASE c = "A" -> "a"
      [] c = "B" -> "b"
      [] c = "C" -> "c"
      [] OTHER -> c

\* str.lower()
Lower(s) == [i \in 1..Len(s) |-> LowerChar(s[i])]

RECURSIVE LStrip(_)
LStrip(s) ==
    IF s # <<>> /\ Head(s) \in Whitespace THEN LStrip(Tail(s)) ELSE s

RECURSIVE RStrip(_)
RStrip(s) ==
    IF s # <<>> /\ s[Len(s)] \in Whitespace
    THEN RStrip(SubSeq(s, 1, Len(s) - 1))
    ELSE s

\* str.strip()
Strip(s) == RStrip(LStrip(s))

\* (p.get(field) or "").lower().strip()
NormField(x) == Strip(Lower(OrEmpty(x)))

\* name = f"{fn} {ln}" of a profile or of a contact
NormName(first_name, last_name) ==
    NormField(first_name) \o <<" ">> \o NormField(last_name)

\* name.strip() is truthy
NonBlank(name) == Strip(name) # <<>>

\* All sequences over S of length at most n.
SeqsUpTo(S, n) == UNION {[1..k -> S] : k \in 0..n}

\* a is a subsequence of b (b with some entries removed, order kept)
RECURSIVE IsSubsequence(_, _)
IsSubsequence(a, b) ==
    IF a = <<>> THEN TRUE
    ELSE IF b = <<>> THEN FALSE
    ELSE IF Head(a) = Head(b) THEN IsSubsequence(Tail(a), Tail(b))
    ELSE IsSubsequence(a, Tail(b))

(***************************************************************************)
(* deduplicate_profiles                                                    *)
(***************************************************************************)
\* url = p.get("linkedin_url") or ""
ProfileUrl(p) == OrEmpty(p.linkedin_url)

\* fn, ln, name of a profile
ProfileName(p) == NormName(p.first_name, p.last_name)

\* A plausible slip: the name test is forgotten, only the URL is looked at.
DedupSkipsUrlOnly(p, seen_urls, seen_names) ==
    ProfileUrl(p) # <<>> /\ ProfileUrl(p) \in seen_urls

\* The two `continue` tests of the loop.
DedupSkips(p, seen_urls, seen_names) ==
    \/ ProfileUrl(p) # <<>> /\ ProfileUrl(p) \in seen_urls
    \/ NonBlank(ProfileName(p)) /\ ProfileName(p) \in seen_names

RECURSIVE DedupLoop(_, _, _, _)
DedupLoop(rest, seen_urls, seen_names, acc) ==
    IF rest = <<>> THEN acc
    ELSE LET p == Head(rest) IN
         IF DedupSkips(p, seen_urls, seen_names)
         THEN DedupLoop(Tail(rest), seen_urls, seen_names, acc)
         ELSE DedupLoop(
                Tail(rest),
                IF ProfileUrl(p) # <<>>
                    THEN seen_urls \cup {ProfileUrl(p)} ELSE seen_urls,
                IF NonBlank(ProfileName(p))
                    THEN seen_names \cup {ProfileName(p)} ELSE seen_names,
                Append(acc, p))

deduplicate_profiles(ps) == DedupLoop(ps, {}, {}, <<>>)

(***************************************************************************)
(* exclude_existing_profiles                                               *)
(***************************************************************************)
\* contact = entry.get("contact", {}): an entry without the key has no field
NoContact == [first_name |-> NoneVal, last_name |-> NoneVal,
              linkedin_profile |-> NoneVal]

EntryContact(entry) ==
    IF "contact" \in DOMAIN entry THEN entry.contact ELSE NoContact

EntryName(entry) ==
    NormName(EntryContact(entry).first_name, EntryContact(entry).last_name)

EntryUrl(entry) == OrEmpty(EntryContact(entry).linkedin_profile)

\* the first loop: the names and URLs of the existing entries
ExistingNames(entries) ==
    {EntryName(entries[i]) : i \in {j \in 1..Len(entries) : NonBlank(EntryName(entries[j]))}}

ExistingUrls(entries) ==
    {EntryUrl(entries[i]) : i \in {j \in 1..Len(entries) : EntryUrl(entries[j]) # <<>>}}

\* A plausible slip: `and` for `or` between the URL test and the name test.
IsExistingBoth(p, existing_urls, existing_names) ==
    /\ ProfileUrl(p) # <<>> /\ ProfileUrl(p) \in existing_urls
    /\ NonBlank(ProfileName(p)) /\ ProfileName(p) \in existing_names

\* the test of the second loop
IsExisting(p, existing_urls, existing_names) ==
    \/ ProfileUrl(p) # <<>> /\ ProfileUrl(p) \in existing_urls
    \/ NonBlank(ProfileName(p)) /\ ProfileName(p) \in existing_names

RECURSIVE ExcludeLoop(_, _, _, _, _)
ExcludeLoop(rest, existing_urls, existing_names, acc, n) ==
    IF rest = <<>> THEN <<acc, n>>
    ELSE IF IsExisting(Head(rest), existing_urls, existing_names)
         THEN ExcludeLoop(Tail(rest), existing_urls, existing_names, acc, n + 1)
         ELSE ExcludeLoop(Tail(rest), existing_urls, existing_names,
                          Append(acc, Head(rest)), n)

\* returns <<new_profiles, skipped>>
exclude_existing_profiles(ps, entries) ==
    ExcludeLoop(ps, ExistingUrls(entries), ExistingNames(entries), <<>>, 0)

(***************************************************************************)
(* filter_by_location                                                      *)
(***************************************************************************)
\* str.replace(",", " ")
ReplaceCommas(s) == [i \in 1..Len(s) |-> IF s[i] = "," THEN " " ELSE s[i]]

\* str.split(): the maximal runs of non-whitespace characters, in order
RECURSIVE SplitLoop(_, _, _)
SplitLoop(s, cur, acc) ==
    IF s = <<>> THEN (IF cur = <<>> THEN acc ELSE Append(acc, cur))
    ELSE IF Head(s) \in Whitespace
         THEN SplitLoop(Tail(s), <<>>, IF cur = <<>> THEN acc ELSE Append(acc, cur))
         ELSE SplitLoop(Tail(s), Append(cur, Head(s)), acc)

Split(s) == SplitLoop(s, <<>>, <<>>)

\* A plausible slip: `>= 2` for `> 2`.
TermLongEnoughOffByOne(t) == Len(Strip(t)) >= 2

\* len(t.strip()) > 2
TermLongEnough(t) == Len(Strip(t)) > 2

\* region_terms, as a list
RegionTerms(r) ==
    LET pieces == Split(ReplaceCommas(Strip(Lower(r))))
        kept == SelectSeq(pieces, TermLongEnough)
    IN  [i \in 1..Len(kept) |-> Strip(kept[i])]

\* term in loc
Contains(term, loc) ==
    \E off \in 0..(Len(loc) - Len(term)) :
        SubSeq(loc, off + 1, off + Len(term)) = term

\* loc = (p.get("location") or "").lower()
ProfileLoc(p) == Lower(OrEmpty(p.location))

\* the profile goes to `matched`
LocationKeeps(p, terms) ==
    \/ ProfileLoc(p) = <<>>
    \/ \E i \in 1..Len(terms) : Contains(terms[i], ProfileLoc(p))

\* returns <<matched, excluded>>
filter_by_location(ps, r) ==
    IF OrEmpty(r) = <<>> THEN <<ps, <<>>>>
    ELSE LET terms == RegionTerms(r)
             keeps(p) == LocationKeeps(p, terms)
             drops(p) == ~LocationKeeps(p, terms)
         IN  <<SelectSeq(ps, keeps), SelectSeq(ps, drops)>>

(***************************************************************************)
(* sanitize_boolean_query                                                  *)
(***************************************************************************)
\* \w of the regular expressions: every character of the model but these
NonWordChars == Whitespace \cup {"(", ")", "&", ","}

IsWordChar(c) == c \notin NonWordChars

\* s has the literal lit at position i
HasAt(s, i, lit) ==
    /\ i >= 1
    /\ i + Len(lit) - 1 <= Len(s)
    /\ SubSeq(s, i, i + Len(lit) - 1) = lit

\* \s* from position i: the first position at or after i that holds no
\* whitespace (Len(s) + 1 when there is none)
RECURSIVE SkipSpaces(_, _)
SkipSpaces(s, i) ==
    IF i <= Len(s) /\ s[i] \in Whitespace THEN SkipSpaces(s, i + 1) ELSE i

\* r'\)\s*NOT\s*\(' matched at position i: the position of its last
\* character, 0 when it does not match there
MatchNotAt(s, i) ==
    IF ~HasAt(s, i, <<")">>) THEN 0
    ELSE LET j == SkipSpaces(s, i + 1) IN
         IF ~HasAt(s, j, <<"N", "O", "T">>) THEN 0
         ELSE LET k == SkipSpaces(s, j + 3) IN
              IF HasAt(s, k, <<"(">>) THEN k ELSE 0

\* A plausible slip: the replacement leaves the AND out.
NotReplacementNoAnd == <<")", " ", "N", "O", "T", " ", "(">>

\* ') AND NOT ('
NotReplacement ==
    <<")", " ", "A", "N", "D", " ", "N", "O", "T", " ", "(">>

\* re.sub(r'\)\s*NOT\s*\(', ') AND NOT (', s), from position i on
RECURSIVE SubNot(_, _)
SubNot(s, i) ==
    IF i > Len(s) THEN <<>>
    ELSE LET e == MatchNotAt(s, i) IN
         IF e > 0 THEN NotReplacement \o SubNot(s, e + 1)
         ELSE <<s[i]>> \o SubNot(s, i + 1)

\* r'\bAND\s+AND\s+NOT\b' matched at position i: the position of its last
\* character, 0 when it does not match there
MatchAndAndNotAt(s, i) ==
    IF ~(i = 1 \/ ~IsWordChar(s[i - 1])) THEN 0
    ELSE IF ~HasAt(s, i, <<"A", "N", "D">>) THEN 0
    ELSE LET j == SkipSpaces(s, i + 3) IN
         IF ~(j > i + 3 /\ HasAt(s, j, <<"A", "N", "D">>)) THEN 0
         ELSE LET k == SkipSpaces(s, j + 3) IN
              IF ~(k > j + 3 /\ HasAt(s, k, <<"N", "O", "T">>)) THEN 0
              ELSE IF k + 2 = Len(s) \/ ~IsWordChar(s[k + 3]) THEN k + 2
              ELSE 0

\* re.sub(r'\bAND\s+AND\s+NOT\b', 'AND NOT', s), from position i on: one
\* left-to-right pass, the search resuming after each match
RECURSIVE SubAndAndNot(_, _)
SubAndAndNot(s, i) ==
    IF i > Len(s) THEN <<>>
    ELSE LET e == MatchAndAndNotAt(s, i) IN
         IF e > 0
         THEN <<"A", "N", "D", " ", "N", "O", "T">> \o SubAndAndNot(s, e + 1)
         ELSE <<s[i]>> \o SubAndAndNot(s, i + 1)

\* q.replace('&', 'and')
RECURSIVE ReplaceAmp(_)
ReplaceAmp(s) ==
    IF s = <<>> THEN <<>>
    ELSE (IF Head(s) = "&" THEN <<"a", "n", "d">> ELSE <<Head(s)>>)
         \o ReplaceAmp(Tail(s))

\* re.sub(r'\s+', ' ', s), from position i on
RECURSIVE CollapseSpaces(_, _)
CollapseSpaces(s, i) ==
    IF i > Len(s) THEN <<>>
    ELSE IF s[i] \in Whitespace
         THEN <<" ">> \o CollapseSpaces(s, SkipSpaces(s, i))
         ELSE <<s[i]>> \o CollapseSpaces(s, i + 1)

\* A plausible slip: q.strip() is left out.
sanitize_boolean_query_unstripped(s) ==
    CollapseSpaces(ReplaceAmp(SubAndAndNot(SubNot(s, 1), 1)), 1)

sanitize_boolean_query(s) ==
    CollapseSpaces(ReplaceAmp(SubAndAndNot(SubNot(Strip(s), 1), 1)), 1)

(***************************************************************************)
(* The inputs the utilities are applied to                                 *)
(***************************************************************************)
MaxDedupLen == 3
MaxExcludeLen == 2
MaxLocationLen == 2
MaxRegionLen == 4

DedupProfiles ==
    [linkedin_url : {NoneVal, <<>>, <<"u">>, <<"v">>},
     first_name : {<<"a">>, <<"A", " ">>, <<" ">>},
     last_name : {NoneVal, <<"b">>},
     location : {NoneVal}]

ExcludeProfiles ==
    [linkedin_url : {NoneVal, <<"u">>, <<"v">>},
     first_name : {<<"A", " ">>, <<" ">>},
     last_name : {NoneVal, <<"b">>},
     location : {NoneVal}]

ExistingEntries ==
    {[id |-> "e"]} \cup
    [contact : [linkedin_profile : {<<>>, <<"u">>},
                first_name : {NoneVal, <<" ", "a">>},
                last_name : {<<"B">>}]]

LocationProfiles ==
    [linkedin_url : {NoneVal},
     first_name : {<<"a">>},
     last_name : {<<"b">>},
     location : {NoneVal, <<>>, <<" ">>, <<"a", "b">>, <<"A", "b", "A">>,
                 <<"b", "a", "B", "a", "c">>}]

Regions == SeqsUpTo({"a", "B", ",", " "}, MaxRegionLen)

UtilIdle ==
    /\ profiles = <<>> /\ existing_entries = <<>> /\ region = <<>>
    /\ unique = <<>> /\ new_profiles = <<>> /\ skipped = 0
    /\ matched = <<>> /\ excluded = <<>> /\ utilPc = "idle"

SanIdle == q = <<>> /\ q_prev = <<>> /\ sanCalls = 0

RunIdle ==
    /\ usage_file = [kind |-> "missing", date |-> 0, count |-> 0]
    /\ today = 1 /\ fs_writable = TRUE /\ max_profiles = 0
    /\ all_profiles = <<>> /\ page = 0 /\ runPc = "idle" /\ notice = "none"
    /\ start_count = 0 /\ returned_total = 0 /\ page_requests = 0

ScoreIdle ==
    /\ filtered_profiles = <<>> /\ all_scores = <<>> /\ batch_i = 0
    /\ scored_profiles = <<>> /\ scoring_done = FALSE /\ scorePc = "idle"
    /\ model_calls = <<>>

PushIdle ==
    /\ min_score_push = 0 /\ profiles_to_push = <<>> /\ contact_ids = <<>>
    /\ added_total = 0 /\ push_i = 0 /\ note_idx = 0 /\ write_calls = <<>>
    /\ note_log = <<>> /\ note_failed = FALSE /\ pushPc = "idle"

ReqIdle ==
    /\ attempt = 0 /\ responses = <<>> /\ sleeps = <<>> /\ reqPc = "idle"
    /\ req_error = <<"none">>

UsageIdle ==
    usagePc = "idle" /\ usage_out = [op |-> "none", value |-> 0] /\ usage_ops = 0

NoCriteria == [present |-> FALSE, keys |-> {}]

CritIdle ==
    /\ job_desc_given = FALSE /\ session_criteria = NoCriteria
    /\ critPc = "idle" /\ crit_calls = 0 /\ crit_notice = "none"
    /\ form_defaults = {}

SrcIdle == page_log = <<>> /\ total_count = 0

PlainIdle ==
    /\ plain_call = "none" /\ plain_responses = <<>> /\ offset = 0
    /\ all_entries = 0 /\ plainPc = "idle"

SessIdle ==
    sess_pc = <<>> /\ sess_data = <<>> /\ sess_n = <<>>

\* no project id typed, none stored
NoProject == "absent"

ProjIdle ==
    /\ project_input = "" /\ session_project = NoProject
    /\ write_projects = <<>> /\ session_runs = 0 /\ session_pushes = 0

LateIdle == PlainIdle /\ SessIdle /\ ProjIdle

NewIdle == ReqIdle /\ SrcIdle /\ UsageIdle /\ CritIdle /\ LateIdle

\* ---- sanitize_boolean_query applied, and applied again to its result
MaxSanWords == 4

SanWords == {<<"A", "N", "D">>, <<"N", "O", "T">>, <<"(">>, <<")">>, <<"&">>}

\* what stands before each word: nothing, or a run of whitespace
SanGaps == {<<>>, <<"\t", " ">>}

RECURSIVE JoinWords(_, _)
JoinWords(ws, gs) ==
    IF ws = <<>> THEN <<>>
    ELSE Head(gs) \o Head(ws) \o JoinWords(Tail(ws), Tail(gs))

\* '(title) NOT (exclude) & more'
SanExample ==
    <<"(", "t", "i", "t", "l", "e", ")", " ", "N", "O", "T", " ",
      "(", "e", "x", "c", "l", "u", "d", "e", ")", " ", "&", " ",
      "m", "o", "r", "e">>

SanInputs ==
    {SanExample, <<"\n">> \o SanExample \o <<" ", "\n">>} \cup
    UNION {{JoinWords(ws, gs) : ws \in [1..n -> SanWords], gs \in [1..n -> SanGaps]}
           : n \in 0..MaxSanWords}

SanInit ==
    /\ q \in SanInputs /\ q_prev = <<>> /\ sanCalls = 0
    /\ UtilIdle /\ RunIdle /\ ScoreIdle /\ PushIdle /\ NewIdle

Sanitize ==
    /\ sanCalls < 2
    /\ q' = sanitize_boolean_query(q)
    /\ q_prev' = q
    /\ sanCalls' = sanCalls + 1
    /\ UNCHANGED <<utilVars, runVars, scoreVars, pushVars, newVars>>

SpecSan == SanInit /\ [][Sanitize]_vars

\* ---- deduplicate_profiles applied to a drawn list
DedupInit ==
    /\ profiles \in SeqsUpTo(DedupProfiles, MaxDedupLen)
    /\ existing_entries = <<>> /\ region = <<>>
    /\ unique = <<>> /\ new_profiles = <<>> /\ skipped = 0
    /\ matched = <<>> /\ excluded = <<>> /\ utilPc = "input"
    /\ SanIdle /\ RunIdle /\ ScoreIdle /\ PushIdle /\ NewIdle

Deduplicate ==
    /\ utilPc = "input"
    /\ unique' = deduplicate_profiles(profiles)
    /\ utilPc' = "done"
    /\ UNCHANGED <<profiles, existing_entries, region, new_profiles, skipped,
                   matched, excluded, sanVars, runVars, scoreVars, pushVars, newVars>>

SpecDedup == DedupInit /\ [][Deduplicate]_vars

\* ---- exclude_existing_profiles applied to drawn lists
ExcludeInit ==
    /\ profiles \in SeqsUpTo(ExcludeProfiles, MaxExcludeLen)
    /\ existing_entries \in SeqsUpTo(ExistingEntries, MaxExcludeLen)
    /\ region = <<>>
    /\ unique = <<>> /\ new_profiles = <<>> /\ skipped = 0
    /\ matched = <<>> /\ excluded = <<>> /\ utilPc = "input"
    /\ SanIdle /\ RunIdle /\ ScoreIdle /\ PushIdle /\ NewIdle

ExcludeExisting ==
    /\ utilPc = "input"
    /\ LET r == exclude_existing_profiles(profiles, existing_entries) IN
        /\ new_profiles' = r[1]
        /\ skipped' = r[2]
    /\ utilPc' = "done"
    /\ UNCHANGED <<profiles, existing_entries, region, unique,
                   matched, excluded, sanVars, runVars, scoreVars, pushVars, newVars>>

SpecExclude == ExcludeInit /\ [][ExcludeExisting]_vars

\* ---- filter_by_location applied to a drawn list and region
LocationInit ==
    /\ profiles \in SeqsUpTo(LocationProfiles, MaxLocationLen)
    /\ region \in Regions
    /\ existing_entries = <<>>
    /\ unique = <<>> /\ new_profiles = <<>> /\ skipped = 0
    /\ matched = <<>> /\ excluded = <<>> /\ utilPc = "input"
    /\ SanIdle /\ RunIdle /\ ScoreIdle /\ PushIdle /\ NewIdle

FilterByLocation ==
    /\ utilPc = "input"
    /\ LET r == filter_by_location(profiles, region) IN
        /\ matched' = r[1]
        /\ excluded' = r[2]
    /\ utilPc' = "done"
    /\ UNCHANGED <<profiles, existing_entries, region, unique, new_profiles,
                   skipped, sanVars, runVars, scoreVars, pushVars, newVars>>

SpecLocation == LocationInit /\ [][FilterByLocation]_vars

(***************************************************************************)
(* C1..C3: the utilities                                                   *)
(***************************************************************************)
\* C1: deduplicate_profiles returns a subsequence of its input (first-seen
\* order kept, no longer than the input) in which no two entries have the same
\* non-empty linkedin_url and no two have the same non-blank normalized name.
C1_DedupUnique ==
    utilPc = "done" =>
        /\ IsSubsequence(unique, profiles)
        /\ Len(unique) <= Len(profiles)
        /\ \A i, j \in 1..Len(unique) :
            i < j =>
                /\ ~(ProfileUrl(unique[i]) # <<>>
                     /\ ProfileUrl(unique[i]) = ProfileUrl(unique[j]))
                /\ ~(NonBlank(ProfileName(unique[i]))
                     /\ ProfileName(unique[i]) = ProfileName(unique[j]))

\* a list of three in which the second repeats the first one's name under
\* another spelling and the third repeats its URL: both are dropped
C1_Witness ==
    /\ utilPc = "done"
    /\ Len(profiles) = 3 /\ Len(unique) = 1
    /\ profiles[1].first_name # profiles[2].first_name
    /\ ProfileUrl(profiles[2]) # ProfileUrl(profiles[1])
    /\ ProfileName(profiles[3]) # ProfileName(profiles[1])

\* what the claim calls present in the existing entries, said of one profile
ClaimedExisting(p, entries) ==
    \E k \in 1..Len(entries) :
        \/ ProfileUrl(p) # <<>> /\ ProfileUrl(p) = EntryUrl(entries[k])
        \/ NonBlank(ProfileName(p)) /\ ProfileName(p) = EntryName(entries[k])

\* C2: exclude_existing_profiles removes exactly the profiles whose non-empty
\* URL or non-blank normalized name is that of an existing entry, keeps the
\* others in input order, and its skipped count is the number removed.
C2_ExcludeExact ==
    utilPc = "done" =>
        LET stays(p) == ~ClaimedExisting(p, existing_entries) IN
        /\ new_profiles = SelectSeq(profiles, stays)
        /\ skipped = Len(profiles) - Len(new_profiles)

\* one profile removed by its name alone (its URL differs), one kept
C2_Witness ==
    /\ utilPc = "done"
    /\ Len(profiles) = 2 /\ Len(new_profiles) = 1 /\ skipped = 1
    /\ \E i \in 1..2 :
        /\ ClaimedExisting(profiles[i], existing_entries)
        /\ ProfileUrl(profiles[i]) \notin ExistingUrls(existing_entries)

\* the separators of a region: whitespace and the comma
IsSeparator(c) == c \in Whitespace \cup {","}

\* the whitespace/comma-separated pieces of r longer than 2 characters
ClaimedTerms(r) ==
    {SubSeq(r, i, j) : <<i, j>> \in
        {ij \in (1..Len(r)) \X (1..Len(r)) :
            /\ ij[2] - ij[1] + 1 > 2
            /\ \A k \in ij[1]..ij[2] : ~IsSeparator(r[k])
            /\ (ij[1] = 1 \/ IsSeparator(r[ij[1] - 1]))
            /\ (ij[2] = Len(r) \/ IsSeparator(r[ij[2] + 1]))}}

\* t occurs in s, the case of the letters set aside
ContainsIgnoringCase(t, s) ==
    \E off \in 0..(Len(s) - Len(t)) :
        \A k \in 1..Len(t) : LowerChar(s[off + k]) = LowerChar(t[k])

ClaimedKept(p, r) ==
    \/ OrEmpty(p.location) = <<>>
    \/ \E t \in ClaimedTerms(r) : ContainsIgnoringCase(t, OrEmpty(p.location))

\* C3: for a non-empty region, filter_by_location keeps a profile exactly
\* when its location is empty or missing or contains a region term, the case
\* set aside; kept and excluded partition the input, each in input order.
C3_LocationFilter ==
    (utilPc = "done" /\ region # <<>>) =>
        LET keeps(p) == ClaimedKept(p, region)
            drops(p) == ~ClaimedKept(p, region)
        IN  /\ matched = SelectSeq(profiles, keeps)
            /\ excluded = SelectSeq(profiles, drops)

\* a region with a term: one profile kept by a match in another case, one
\* excluded
C3_Witness ==
    /\ utilPc = "done"
    /\ ClaimedTerms(region) # {}
    /\ Len(matched) = 1 /\ Len(excluded) = 1
    /\ OrEmpty(matched[1].location) # <<>>
    /\ ~Contains(Strip(region), OrEmpty(matched[1].location))

\* a region that is not empty and yields no term: every profile with a
\* location is excluded
C3_NoTermWitness ==
    /\ utilPc = "done"
    /\ region # <<>> /\ ClaimedTerms(region) = {}
    /\ Len(excluded) = 2

(***************************************************************************)
(* C4, C5: the sanitizer                                                   *)
(***************************************************************************)
\* C4: sanitize_boolean_query is idempotent: applied to its own result it
\* returns that result.
C4_Idempotent == sanCalls = 2 => q = q_prev

\* '(title) AND NOT (exclude) and more'
SanExampleResult ==
    <<"(", "t", "i", "t", "l", "e", ")", " ", "A", "N", "D", " ",
      "N", "O", "T", " ", "(", "e", "x", "c", "l", "u", "d", "e", ")",
      " ", "a", "n", "d", " ", "m", "o", "r", "e">>

\* C5: sanitize_boolean_query('(title) NOT (exclude) & more') is exactly
\* '(title) AND NOT (exclude) and more'.
C5_Example ==
    (sanCalls = 1 /\ q_prev = SanExample) => q = SanExampleResult

C5_Witness ==
    sanCalls = 1 /\ q_prev = SanExample /\ q = SanExampleResult

(***************************************************************************)
(* The LinkedIn daily usage counter                                        *)
(***************************************************************************)
LINKEDIN_DAILY_LIMIT == 1000

\* _load_usage: the file's record when the file exists, parses and is dated
\* today; a fresh counter otherwise
load_usage(file, day) ==
    IF file.kind = "data" /\ file.date = day
    THEN [date |-> file.date, count |-> file.count]
    ELSE [date |-> day, count |-> 0]

\* _save_usage: the file after the call; an OSError is swallowed
save_usage(file, data, writable) ==
    IF writable
    THEN [kind |-> "data", date |-> data.date, count |-> data.count]
    ELSE file

get_linkedin_count(file, day) == load_usage(file, day).count

\* A plausible slip: the count is overwritten, not added to.
add_linkedin_count_overwrite(file, day, writable, n) ==
    save_usage(file, [date |-> load_usage(file, day).date, count |-> n],
               writable)

\* the file after add_linkedin_count(n)
add_linkedin_count(file, day, writable, n) ==
    LET data == load_usage(file, day) IN
    save_usage(file, [date |-> data.date, count |-> data.count + n], writable)

(***************************************************************************)
(* The LinkedIn paginated search (Phase 1, source_type = "linkedin")       *)
(***************************************************************************)
\* page_size of linkedin_search
PageSize == 25
\* the step of the "Profils max" slider, which is also its least value
SliderStep == 25

MaxSliderSteps == 2
MaxPages == 4
PartialPage == 5

\* the counts a usage file dated today or yesterday may hold when a run begins
InitCounts == {0, 960, 975, 990, 999, 1000, 1015}

UsageFiles ==
    {[kind |-> "missing", date |-> 0, count |-> 0],
     [kind |-> "corrupt", date |-> 0, count |-> 0]}
    \cup [kind : {"data"}, date : {0, 1}, count : InitCounts]

\* what one linkedin_search call may answer: the number of profiles of the
\* page, how many of them are flagged already_in_project, and has_more
PageAnswers ==
    {a \in [n : {0, PartialPage, PageSize},
            flagged : {0, 1, PartialPage, PageSize},
            has_more : BOOLEAN] :
        a.flagged \in {0, 1, a.n} /\ a.flagged <= a.n}

\* a list of k profiles
ProfileList(k) == [i \in 1..k |-> "profile"]

LinkedInInit ==
    /\ usage_file \in UsageFiles
    /\ today = 1
    /\ fs_writable \in BOOLEAN
    /\ max_profiles \in {SliderStep * k : k \in 1..MaxSliderSteps}
    /\ all_profiles = <<>>
    /\ page = 0
    /\ runPc = "start"
    /\ notice = "none"
    /\ start_count = get_linkedin_count(usage_file, today)
    /\ returned_total = 0
    /\ page_requests = 0
    /\ UtilIdle /\ SanIdle /\ ScoreIdle /\ PushIdle /\ NewIdle

\* A plausible slip: `>` for `>=`.
QuotaReachedStrict(file, day) ==
    get_linkedin_count(file, day) > LINKEDIN_DAILY_LIMIT

\* get_linkedin_count() >= LINKEDIN_DAILY_LIMIT
QuotaReached(file, day) ==
    get_linkedin_count(file, day) >= LINKEDIN_DAILY_LIMIT

\* 0. the daily limit check at the start of the run
CheckDailyLimit ==
    /\ runPc = "start"
    /\ LET remaining == LINKEDIN_DAILY_LIMIT - get_linkedin_count(usage_file, today) IN
        IF remaining <= 0
        THEN /\ runPc' = "quota_stop"
             /\ notice' = "quota_stop"
             /\ UNCHANGED max_profiles
        ELSE /\ runPc' = "lookup"
             /\ max_profiles' = IF max_profiles > remaining THEN remaining ELSE max_profiles
             /\ notice' = IF max_profiles > remaining THEN "quota_clamped" ELSE notice
    /\ UNCHANGED <<usage_file, today, fs_writable, all_profiles, page,
                   start_count, returned_total, page_requests, utilVars, sanVars, scoreVars, pushVars, newVars>>

\* 1. the location lookups, which answer or raise
ResolveLocations ==
    /\ runPc = "lookup"
    /\ \/ runPc' = "loop" /\ page' = 1 /\ UNCHANGED notice
       \/ runPc' = "error" /\ notice' = "search_error" /\ UNCHANGED page
    /\ UNCHANGED <<usage_file, today, fs_writable, max_profiles, all_profiles,
                   start_count, returned_total, page_requests, utilVars, sanVars, scoreVars, pushVars, newVars>>

\* 3. the head of the loop: its condition and the limit check before a page
LoopHead ==
    /\ runPc = "loop"
    /\ IF Len(all_profiles) >= max_profiles
       THEN runPc' = "slice" /\ UNCHANGED notice
       ELSE IF QuotaReached(usage_file, today)
            THEN runPc' = "slice" /\ notice' = "quota_break"
            ELSE runPc' = "request" /\ UNCHANGED notice
    /\ UNCHANGED <<usage_file, today, fs_writable, max_profiles, all_profiles,
                   page, start_count, returned_total, page_requests,
                   utilVars, sanVars, scoreVars, pushVars, newVars>>

\* A plausible slip: the profiles are counted after the already_in_project
\* filter.
CountedProfilesAfterFilter(a) == a.n - a.flagged

\* len(profiles) as passed to add_linkedin_count: before the filter
CountedProfiles(a) == a.n

\* the request of one page and what the loop does with the answer
SearchPage ==
    /\ runPc = "request"
    /\ page <= MaxPages
    /\ page_requests' = page_requests + 1
    /\ \/ /\ runPc' = "error"
          /\ notice' = "search_error"
          /\ UNCHANGED <<usage_file, all_profiles, page, returned_total>>
       \/ \E a \in PageAnswers :
            IF a.n = 0
            THEN /\ runPc' = "slice"
                 /\ UNCHANGED <<usage_file, all_profiles, page, returned_total, notice>>
            ELSE /\ usage_file' = add_linkedin_count(usage_file, today, fs_writable,
                                                     CountedProfiles(a))
                 /\ returned_total' = returned_total + a.n
                 /\ all_profiles' = all_profiles \o ProfileList(a.n - a.flagged)
                 /\ IF a.has_more
                    THEN page' = page + 1 /\ runPc' = "loop"
                    ELSE page' = page /\ runPc' = "slice"
                 /\ UNCHANGED notice
    /\ UNCHANGED <<today, fs_writable, max_profiles, start_count, utilVars, sanVars, scoreVars, pushVars, newVars>>

\* all_profiles[:max_profiles], and the stop when nothing was found
SliceProfiles ==
    /\ runPc = "slice"
    /\ all_profiles' = SubSeq(all_profiles, 1,
                              IF Len(all_profiles) < max_profiles
                              THEN Len(all_profiles) ELSE max_profiles)
    /\ IF all_profiles' = <<>>
       THEN runPc' = "no_profiles" /\ notice' = "no_profiles"
       ELSE runPc' = "retrieved" /\ UNCHANGED notice
    /\ UNCHANGED <<usage_file, today, fs_writable, max_profiles, page,
                   start_count, returned_total, page_requests, utilVars, sanVars, scoreVars, pushVars, newVars>>

\* the run goes on to the filters and to Phase 2
StartScoring ==
    /\ runPc = "retrieved"
    /\ runPc' = "scoring"
    /\ UNCHANGED <<usage_file, today, fs_writable, max_profiles, all_profiles,
                   page, notice, start_count, returned_total, page_requests,
                   utilVars, sanVars, scoreVars, pushVars, newVars>>

LinkedInNext ==
    \/ CheckDailyLimit
    \/ ResolveLocations
    \/ LoopHead
    \/ SearchPage
    \/ SliceProfiles
    \/ StartScoring

SpecLinkedIn == LinkedInInit /\ [][LinkedInNext]_vars

(***************************************************************************)
(* C8..C10: the daily quota                                                *)
(***************************************************************************)
\* C8: with working storage, each successful page adds to the stored count
\* exactly the number of profiles it returned, flagged ones included: the
\* stored count is the count at the start plus the profiles returned, so from
\* 0 and after pages totalling P it is P.
C8_CountIsReturned ==
    fs_writable =>
        get_linkedin_count(usage_file, today) = start_count + returned_total

\* from a count of 0, two pages have been returned, some of their profiles
\* flagged, and the stored count is what they returned
C8_Witness ==
    /\ fs_writable /\ start_count = 0
    /\ page_requests = 2
    /\ returned_total = PageSize + PartialPage
    /\ Len(all_profiles) < returned_total
    /\ usage_file.kind = "data" /\ usage_file.count = returned_total

\* C9: with working storage and no other session, the stored count of today
\* never exceeds 1000 in a run that began at or below it.
C9_HardCeiling ==
    (fs_writable /\ start_count <= LINKEDIN_DAILY_LIMIT) =>
        get_linkedin_count(usage_file, today) <= LINKEDIN_DAILY_LIMIT

\* C10: no page is requested while the stored count of today is at or above
\* 1000: a run that begins there stops before its first request and goes on
\* to nothing, and the loop stops before a page once the count is there.
C10_NoRequestAtCeiling ==
    /\ runPc = "request" => get_linkedin_count(usage_file, today) < LINKEDIN_DAILY_LIMIT
    /\ start_count >= LINKEDIN_DAILY_LIMIT =>
        /\ runPc \in {"start", "quota_stop"}
        /\ page_requests = 0
        /\ all_profiles = <<>>

\* the ceiling is reached between two pages and the loop stops there
C10_Witness ==
    /\ notice = "quota_break"
    /\ page_requests >= 1
    /\ start_count < LINKEDIN_DAILY_LIMIT
    /\ get_linkedin_count(usage_file, today) >= LINKEDIN_DAILY_LIMIT
    /\ Len(all_profiles) < max_profiles

\* the count is at the ceiling when the run begins: the run has stopped
C10_StartWitness ==
    /\ runPc = "quota_stop"
    /\ start_count >= LINKEDIN_DAILY_LIMIT
    /\ page_requests = 0

(***************************************************************************)
(* Phase 2: the scoring loop and the merge                                 *)
(***************************************************************************)
\* batch_size of the scoring loop
batch_size == 10

MaxFiltered == 11

\* the scores the model may give: the prompt asks for 0 to 10, and nothing
\* holds the answer to it
ScoreValues == {0, 5, 10, 11}

\* the justification of a profile no score entry names
NotScored == <<"Non score">>

\* The profiles that enter Phase 2: n profiles, each with its own remaining
\* fields (idx stands for them); their profile_ids differ, or the second
\* profile carries the first one's profile_id.
FilteredLists ==
    {[i \in 1..n |-> [profile_id |-> IF dup /\ i = 2 THEN 1 ELSE i, idx |-> i]] :
        n \in 1..MaxFiltered, dup \in BOOLEAN}

\* A plausible slip: the slice takes one profile more.
BatchAtOneMore(ps, i) ==
    SubSeq(ps, i + 1,
           IF i + batch_size + 1 < Len(ps) THEN i + batch_size + 1 ELSE Len(ps))

\* all_profiles[i:i+batch_size]
BatchAt(ps, i) ==
    SubSeq(ps, i + 1, IF i + batch_size < Len(ps) THEN i + batch_size ELSE Len(ps))

\* The key an entry of the parsed answer may lack ("none": it has the three).
\* The field of a key that is lacking is not read.
LackKinds == {"none", "profile_id", "score", "justification"}

\* The parsed answers the model may give for a batch: one entry per profile
\* in batch order, scored hi and lo in turn; the entry of the first or of the
\* last profile may be missing, and an entry for a profile_id that no profile
\* has (0) may follow; the first entry of the answer may lack a key.  k0
\* numbers the entries, for their justifications.
BatchEntries(batch, hi, lo, k0) ==
    [k \in 1..Len(batch) |->
        [profile_id |-> batch[k].profile_id,
         score |-> IF k % 2 = 1 THEN hi ELSE lo,
         justification |-> <<"because", k0 + k>>,
         lacks |-> "none"]]

\* the entries, the first of them lacking a key
Lacking(entries, key) ==
    [k \in 1..Len(entries) |->
        IF k = 1 THEN [entries[k] EXCEPT !.lacks = key] ELSE entries[k]]

ScoreAnswers(batch, k0) ==
    {Lacking(
        (IF omit = "first" THEN Tail(BatchEntries(batch, hi, lo, k0))
         ELSE IF omit = "last"
              THEN SubSeq(BatchEntries(batch, hi, lo, k0), 1, Len(batch) - 1)
              ELSE BatchEntries(batch, hi, lo, k0))
        \o (IF extra
            THEN <<[profile_id |-> 0, score |-> hi,
                    justification |-> <<"because", 0>>, lacks |-> "none"]>>
            ELSE <<>>),
        key) :
        hi \in ScoreValues, lo \in ScoreValues,
        omit \in {"none", "first", "last"}, extra \in BOOLEAN,
        key \in LackKinds}

ScoringInit ==
    /\ filtered_profiles \in FilteredLists
    /\ all_scores = <<>> /\ batch_i = 0
    /\ scored_profiles = <<>> /\ scoring_done = FALSE
    /\ scorePc = "scoring" /\ model_calls = <<>>
    /\ UtilIdle /\ SanIdle /\ RunIdle /\ PushIdle /\ NewIdle

\* A plausible slip: when a batch fails, the scores received so far are merged
\* and stored.
ScoreBatchStoringPartial ==
    /\ scorePc = "scoring"
    /\ batch_i < Len(filtered_profiles)
    /\ model_calls' = Append(model_calls, BatchAt(filtered_profiles, batch_i))
    /\ \/ /\ \E scores \in ScoreAnswers(BatchAt(filtered_profiles, batch_i), batch_i) :
                all_scores' = all_scores \o scores
          /\ batch_i' = batch_i + batch_size
          /\ UNCHANGED <<scorePc, scored_profiles, scoring_done>>
       \/ /\ scorePc' = "scoring_error"
          /\ scored_profiles' =
                [i \in 1..Len(filtered_profiles) |->
                    [profile_id |-> filtered_profiles[i].profile_id,
                     idx |-> filtered_profiles[i].idx,
                     score |-> 0, justification |-> <<"partial">>]]
          /\ scoring_done' = TRUE
          /\ UNCHANGED <<all_scores, batch_i>>
    /\ UNCHANGED <<filtered_profiles, utilVars, sanVars, runVars, pushVars, newVars>>

\* one turn of the scoring loop: score_profiles(batch) answers a list that
\* parses, or raises
ScoreBatch ==
    /\ scorePc = "scoring"
    /\ batch_i < Len(filtered_profiles)
    /\ model_calls' = Append(model_calls, BatchAt(filtered_profiles, batch_i))
    /\ \/ /\ \E scores \in ScoreAnswers(BatchAt(filtered_profiles, batch_i), batch_i) :
                all_scores' = all_scores \o scores
          /\ batch_i' = batch_i + batch_size
          /\ UNCHANGED scorePc
       \/ /\ scorePc' = "scoring_error"
          /\ UNCHANGED <<all_scores, batch_i>>
    /\ UNCHANGED <<filtered_profiles, scored_profiles, scoring_done,
                   utilVars, sanVars, runVars, pushVars, newVars>>

\* scores_map = {s["profile_id"]: s for s in all_scores}: the last entry of
\* each profile_id
HasScore(scores, pid) == \E k \in 1..Len(scores) : scores[k].profile_id = pid

LastScore(scores, pid) ==
    scores[CHOOSE k \in 1..Len(scores) :
            /\ scores[k].profile_id = pid
            /\ \A m \in (k + 1)..Len(scores) : scores[m].profile_id # pid]

\* scores_map.get(pid, {"score": 0, "justification": "Non scoré"})
ScoreData(scores, pid) ==
    IF HasScore(scores, pid)
    THEN [score |-> LastScore(scores, pid).score,
          justification |-> LastScore(scores, pid).justification]
    ELSE [score |-> 0, justification |-> NotScored]

\* {**p, "score": ..., "justification": ...}
WithScore(p, data) ==
    [profile_id |-> p.profile_id, idx |-> p.idx,
     score |-> data.score, justification |-> data.justification]

\* A plausible slip: a profile without a score entry is left out.
MergeScoresDroppingUnscored(ps, scores) ==
    LET has(p) == HasScore(scores, p.profile_id)
        kept == SelectSeq(ps, has)
    IN  [i \in 1..Len(kept) |-> WithScore(kept[i], ScoreData(scores, kept[i].profile_id))]

\* the loop over all_profiles that builds scored_profiles
MergeScores(ps, scores) ==
    [i \in 1..Len(ps) |-> WithScore(ps[i], ScoreData(scores, ps[i].profile_id))]

\* A plausible slip: a sort that puts a later profile before its equals.
RECURSIVE InsertByScoreBeforeTies(_, _)
InsertByScoreBeforeTies(sorted, x) ==
    IF sorted = <<>> THEN <<x>>
    ELSE IF Head(sorted).score > x.score
         THEN <<Head(sorted)>> \o InsertByScoreBeforeTies(Tail(sorted), x)
         ELSE <<x>> \o sorted

\* list.sort(key=score, reverse=True) is stable: x goes after every entry
\* whose score is at least its own
RECURSIVE InsertByScore(_, _)
InsertByScore(sorted, x) ==
    IF sorted = <<>> THEN <<x>>
    ELSE IF Head(sorted).score >= x.score
         THEN <<Head(sorted)>> \o InsertByScore(Tail(sorted), x)
         ELSE <<x>> \o sorted

RECURSIVE SortByScore(_)
SortByScore(ps) ==
    IF ps = <<>> THEN <<>>
    ELSE InsertByScore(SortByScore(SubSeq(ps, 1, Len(ps) - 1)), ps[Len(ps)])

\* The merge raises a KeyError: s["profile_id"] on an entry without it (line
\* 857), or score_data["score"] / score_data["justification"] (line 862) on
\* the entry scores_map holds for a profile.
MergeRaises(ps, scores) ==
    \/ \E k \in 1..Len(scores) : scores[k].lacks = "profile_id"
    \/ \E i \in 1..Len(ps) :
        /\ HasScore(scores, ps[i].profile_id)
        /\ LastScore(scores, ps[i].profile_id).lacks \in {"score", "justification"}

\* Fusionner: the merge, the sort and the session state.  The merge is after
\* the try of the scoring loop: a KeyError it raises is caught by nothing and
\* ends the script run ("crashed").
MergeAndStore ==
    /\ scorePc = "scoring"
    /\ batch_i >= Len(filtered_profiles)
    /\ IF MergeRaises(filtered_profiles, all_scores)
       THEN /\ scorePc' = "crashed"
            /\ UNCHANGED <<scored_profiles, scoring_done>>
       ELSE /\ scored_profiles' =
                    SortByScore(MergeScores(filtered_profiles, all_scores))
            /\ scoring_done' = TRUE
            /\ scorePc' = "results"
    /\ UNCHANGED <<filtered_profiles, all_scores, batch_i, model_calls,
                   utilVars, sanVars, runVars, pushVars, newVars>>

ScoringNext == ScoreBatch \/ MergeAndStore

SpecScoring == ScoringInit /\ [][ScoringNext]_vars

\* C6: after a scoring phase whose every answer parsed, the ranked list holds
\* exactly one scored profile for each filtered profile and nothing else; a
\* profile that no score entry names has score 0 and the default
\* justification, any other has the score and justification of an entry that
\* names it; entries that name no profile add nothing.
C6_MergeKeepsAll ==
    scoring_done =>
        /\ Len(scored_profiles) = Len(filtered_profiles)
        /\ \A i \in 1..Len(filtered_profiles) :
            \E k \in 1..Len(scored_profiles) :
                /\ scored_profiles[k].idx = filtered_profiles[i].idx
                /\ scored_profiles[k].profile_id = filtered_profiles[i].profile_id
        /\ \A k \in 1..Len(scored_profiles) :
            IF \E e \in 1..Len(all_scores) :
                   all_scores[e].profile_id = scored_profiles[k].profile_id
            THEN \E e \in 1..Len(all_scores) :
                   /\ all_scores[e].profile_id = scored_profiles[k].profile_id
                   /\ all_scores[e].score = scored_profiles[k].score
                   /\ all_scores[e].justification = scored_profiles[k].justification
            ELSE /\ scored_profiles[k].score = 0
                 /\ scored_profiles[k].justification = NotScored

\* two batches were scored; one profile has no entry and is ranked with score
\* 0 and the default justification below profiles scored above 0; an entry
\* names a profile_id that no profile has
C6_Witness ==
    /\ scoring_done
    /\ Len(model_calls) = 2
    /\ Len(scored_profiles) = Len(filtered_profiles)
    /\ \E k \in 1..Len(scored_profiles) :
        /\ scored_profiles[k].justification = NotScored
        /\ ~HasScore(all_scores, scored_profiles[k].profile_id)
    /\ scored_profiles[1].score > 0
    /\ HasScore(all_scores, 0)

(***************************************************************************)
(* The push to Leonar: the add-to-project batches and the notes            *)
(***************************************************************************)
\* the step of the batch loop
PushBatchSize == 50

MaxScored == 120
LowScored == 3

\* The session after a completed scoring: n ranked profiles, the last
\* LowScored of them (or all, when there are fewer) scored 4, the others 8.
RankedLists ==
    {[i \in 1..n |->
        [profile_id |-> i, idx |-> i,
         score |-> IF i > n - LowScored THEN 4 ELSE 8,
         justification |-> <<"because", i>>]] : n \in 0..MaxScored}

PushInit ==
    /\ scored_profiles \in RankedLists
    /\ scoring_done = TRUE
    /\ scorePc = "results"
    /\ filtered_profiles = <<>> /\ all_scores = <<>> /\ batch_i = 0
    /\ model_calls = <<>>
    /\ min_score_push \in {0, 6}
    /\ profiles_to_push = <<>> /\ contact_ids = <<>> /\ added_total = 0
    /\ push_i = 0 /\ note_idx = 0 /\ write_calls = <<>> /\ note_log = <<>>
    /\ note_failed = FALSE /\ pushPc = "button"
    /\ UtilIdle /\ SanIdle /\ RunIdle /\ NewIdle

\* profiles_to_push = [p for p in scored_profiles if p["score"] >= min_score_push]
ProfilesToPush(ranked, floor) ==
    LET accepted(p) == p.score >= floor IN SelectSeq(ranked, accepted)

\* the button is pressed: profiles_payload is built from profiles_to_push
PressPush ==
    /\ pushPc = "button"
    /\ scoring_done
    /\ profiles_to_push' = ProfilesToPush(scored_profiles, min_score_push)
    /\ pushPc' = "batches"
    /\ UNCHANGED <<min_score_push, contact_ids, added_total, push_i, note_idx,
                   write_calls, note_log, note_failed,
                   utilVars, sanVars, runVars, scoreVars, newVars>>

\* A plausible slip: the slice stops one profile short.
PayloadBatchShort(payload, i) ==
    SubSeq(payload, i + 1,
           IF i + PushBatchSize - 1 < Len(payload)
           THEN i + PushBatchSize - 1 ELSE Len(payload))

\* profiles_payload[i:i+50]
PayloadBatch(payload, i) ==
    SubSeq(payload, i + 1,
           IF i + PushBatchSize < Len(payload) THEN i + PushBatchSize ELSE Len(payload))

\* What add_profiles_to_project may answer for a batch: a contact id for each
\* profile, or for each but the first (a contact's id is written as the
\* profile_id of the profile it was made from).
AddAnswers(batch) ==
    LET ids == [k \in 1..Len(batch) |-> batch[k].profile_id] IN
    {[added |-> Len(ids), contact_ids |-> ids],
     [added |-> Len(ids) - 1, contact_ids |-> Tail(ids)]}

\* A plausible slip: the exception of add_profiles_to_project is caught in
\* the loop, which goes on with the next batch.
AddBatchSkippingFailed ==
    /\ pushPc = "batches"
    /\ push_i < Len(profiles_to_push)
    /\ write_calls' = Append(write_calls, PayloadBatch(profiles_to_push, push_i))
    /\ \/ \E result \in AddAnswers(PayloadBatch(profiles_to_push, push_i)) :
                /\ added_total' = added_total + result.added
                /\ contact_ids' = contact_ids \o result.contact_ids
       \/ UNCHANGED <<added_total, contact_ids>>
    /\ push_i' = push_i + PushBatchSize
    /\ UNCHANGED <<min_score_push, profiles_to_push, note_idx, note_log,
                   note_failed, pushPc, utilVars, sanVars, runVars, scoreVars,
                   newVars>>

\* one turn of the batch loop: add_profiles_to_project answers or raises
AddBatch ==
    /\ pushPc = "batches"
    /\ push_i < Len(profiles_to_push)
    /\ write_calls' = Append(write_calls, PayloadBatch(profiles_to_push, push_i))
    /\ \/ /\ \E result \in AddAnswers(PayloadBatch(profiles_to_push, push_i)) :
                /\ added_total' = added_total + result.added
                /\ contact_ids' = contact_ids \o result.contact_ids
          /\ push_i' = push_i + PushBatchSize
          /\ UNCHANGED pushPc
       \/ /\ pushPc' = "push_error"
          /\ UNCHANGED <<added_total, contact_ids, push_i>>
    /\ UNCHANGED <<min_score_push, profiles_to_push, note_idx, note_log,
                   note_failed, utilVars, sanVars, runVars, scoreVars, newVars>>

\* the batch loop is over
StartNotes ==
    /\ pushPc = "batches"
    /\ push_i >= Len(profiles_to_push)
    /\ pushPc' = "notes"
    /\ UNCHANGED <<min_score_push, profiles_to_push, contact_ids, added_total,
                   push_i, note_idx, write_calls, note_log, note_failed,
                   utilVars, sanVars, runVars, scoreVars, newVars>>

\* A plausible slip: the exception of add_note_to_contact is not caught in
\* the loop and reaches the handler of the push.
AddNoteAborting ==
    /\ pushPc = "notes"
    /\ note_idx < Len(contact_ids)
    /\ IF note_idx < Len(profiles_to_push)
       THEN /\ note_log' = Append(note_log,
                    [contact_id |-> contact_ids[note_idx + 1],
                     score |-> profiles_to_push[note_idx + 1].score,
                     justification |-> profiles_to_push[note_idx + 1].justification])
            /\ \/ UNCHANGED <<note_failed, pushPc>>
               \/ note_failed' = TRUE /\ pushPc' = "push_error"
       ELSE UNCHANGED <<note_log, note_failed, pushPc>>
    /\ note_idx' = note_idx + 1
    /\ UNCHANGED <<min_score_push, profiles_to_push, contact_ids, added_total,
                   push_i, write_calls,
                   utilVars, sanVars, runVars, scoreVars, newVars>>

\* one turn of the notes loop (note_idx is idx): when idx is an index of
\* profiles_to_push, a note with that profile's score and justification is
\* sent for the contact; the call answers or raises, and a raise is swallowed
AddNote ==
    /\ pushPc = "notes"
    /\ note_idx < Len(contact_ids)
    /\ IF note_idx < Len(profiles_to_push)
       THEN /\ note_log' = Append(note_log,
                    [contact_id |-> contact_ids[note_idx + 1],
                     score |-> profiles_to_push[note_idx + 1].score,
                     justification |-> profiles_to_push[note_idx + 1].justification])
            /\ \/ UNCHANGED note_failed
               \/ note_failed' = TRUE
       ELSE UNCHANGED <<note_log, note_failed>>
    /\ note_idx' = note_idx + 1
    /\ UNCHANGED <<min_score_push, profiles_to_push, contact_ids, added_total,
                   push_i, write_calls, pushPc,
                   utilVars, sanVars, runVars, scoreVars, newVars>>

\* the notes loop is over: st.success
FinishPush ==
    /\ pushPc = "notes"
    /\ note_idx >= Len(contact_ids)
    /\ pushPc' = "pushed"
    /\ UNCHANGED <<min_score_push, profiles_to_push, contact_ids, added_total,
                   push_i, note_idx, write_calls, note_log, note_failed,
                   utilVars, sanVars, runVars, scoreVars, newVars>>

PushNext == PressPush \/ AddBatch \/ StartNotes \/ AddNote \/ FinishPush

SpecPush == PushInit /\ [][PushNext]_vars

RECURSIVE Flatten(_)
Flatten(ss) == IF ss = <<>> THEN <<>> ELSE Head(ss) \o Flatten(Tail(ss))

\* C7: for n accepted profiles the write-back makes ceil(n/50) add-to-project
\* calls, in input order, each of at most 50 profiles and all but the last of
\* exactly 50, every accepted profile in exactly one call; once all calls
\* have succeeded, one note is attempted for each contact id returned.
C7_PushBatches ==
    /\ pushPc \in {"notes", "pushed"} =>
        /\ Len(write_calls) = (Len(profiles_to_push) + PushBatchSize - 1) \div PushBatchSize
        /\ Flatten(write_calls) = profiles_to_push
        /\ \A c \in 1..Len(write_calls) :
            /\ Len(write_calls[c]) <= PushBatchSize
            /\ c < Len(write_calls) => Len(write_calls[c]) = PushBatchSize
    /\ pushPc = "pushed" =>
        /\ Len(note_log) = Len(contact_ids)
        /\ \A k \in 1..Len(contact_ids) : note_log[k].contact_id = contact_ids[k]

\* 120 accepted profiles: calls of 50, 50 and 20, and a note attempted for
\* each of the contact ids returned, fewer than 120
C7_Witness ==
    /\ pushPc = "pushed"
    /\ Len(profiles_to_push) = 120
    /\ Len(write_calls) = 3
    /\ Len(write_calls[1]) = 50 /\ Len(write_calls[2]) = 50
    /\ Len(write_calls[3]) = 20
    /\ Len(contact_ids) < 120
    /\ Len(note_log) = Len(contact_ids)


(***************************************************************************)
(* leonar_request: the retry loop and the errors by code                   *)
(***************************************************************************)
\* range(5)
RetryAttempts == 5

\* the line of the pause on X-RateLimit-Remaining and of the wait on a 429
PauseLine == 78
BackoffLine == 82

\* int(remaining) < 10
LowRemaining == 10

\* remaining when the response has no X-RateLimit-Remaining header (None)
NoHeader == -1

\* the codes leonar_request has a message for
KnownCodes ==
    {"insufficient_scope", "invalid_api_key", "billing_required",
     "plan_upgrade_required", "validation_error", "not_found"}

\* What the provider may answer: a status, the X-RateLimit-Remaining header
\* (absent, or a number) and, for an error, its body: not JSON, JSON with no
\* error object, or an error object with a code.
ErrorBodies == KnownCodes \cup {"no_json", "no_error", "server_error"}

Responses ==
    [status : {200, 429}, remaining : {NoHeader, 5, 50}, body : {"data"}]
    \cup [status : {403, 500}, remaining : {NoHeader, 5}, body : ErrorBodies]

\* resp.ok
Ok(resp) == resp.status < 400

\* code, as read from the body (lines 86-91)
ErrorCode(resp) ==
    IF resp.body \in {"no_json", "no_error"} THEN "unknown" ELSE resp.body

\* the exception raised for a response that is not ok: the message of the
\* code, or the raw status and code for a code without one
ErrorMessage(resp) ==
    IF ErrorCode(resp) \in KnownCodes
    THEN <<"kind", ErrorCode(resp)>>
    ELSE <<"raw", resp.status, ErrorCode(resp)>>

\* A plausible slip: 2 ** attempt.
BackoffFromOne(k) == 2 ^ k

\* wait = 2 ** (attempt + 1)
Backoff(k) == 2 ^ (k + 1)

\* the sleeps after the header of a response has been read
AfterPause(resp, log) ==
    IF resp.remaining # NoHeader /\ resp.remaining < LowRemaining
    THEN Append(log, [line |-> PauseLine, secs |-> 2])
    ELSE log

\* leonar_request is entered
EnterRequest ==
    /\ attempt' = 0 /\ responses' = <<>> /\ sleeps' = <<>>
    /\ reqPc' = "call" /\ req_error' = <<"none">>

\* one turn of the for loop; the turn that ends the loop on a 429 goes on to
\* the raise after the loop
SendRequest ==
    /\ reqPc = "call"
    /\ attempt < RetryAttempts
    /\ \E resp \in Responses :
        /\ responses' = Append(responses, resp)
        /\ IF resp.status = 429
           THEN /\ sleeps' = Append(AfterPause(resp, sleeps),
                                    [line |-> BackoffLine, secs |-> Backoff(attempt)])
                /\ attempt' = attempt + 1
                /\ IF attempt + 1 < RetryAttempts
                   THEN UNCHANGED <<reqPc, req_error>>
                   ELSE reqPc' = "raised" /\ req_error' = <<"rate_limit">>
           ELSE /\ sleeps' = AfterPause(resp, sleeps)
                /\ UNCHANGED attempt
                /\ IF ~Ok(resp)
                   THEN reqPc' = "raised" /\ req_error' = ErrorMessage(resp)
                   ELSE reqPc' = "returned" /\ UNCHANGED req_error
    /\ UNCHANGED <<utilVars, sanVars, runVars, scoreVars, pushVars,
                   srcVars, usageVars, critVars, lateVars>>

(***************************************************************************)
(* The Leonar Source / Contacts CRM paginated search                       *)
(***************************************************************************)
\* the profiles of page pg, n of them
SourceProfiles(pg, n) == [i \in 1..n |-> <<pg, i>>]

\* what the "data" of a sourcing_search response may hold
SourcePageAnswers == [n : {0, PartialPage, PageSize}, has_more : BOOLEAN]

\* what results.get("total_count") may be: the profiles the provider says it
\* has for the filters, one page of them or more than any cap
TotalCounts == {PageSize, SliderStep * (MaxSliderSteps + 1)}

SourceInit ==
    /\ max_profiles \in {SliderStep * k : k \in 1..MaxSliderSteps}
    /\ all_profiles = <<>>
    /\ page = 1
    /\ runPc = "loop"
    /\ notice = "none"
    /\ usage_file = [kind |-> "missing", date |-> 0, count |-> 0]
    /\ today = 1 /\ fs_writable = TRUE
    /\ start_count = 0 /\ returned_total = 0 /\ page_requests = 0
    /\ page_log = <<>>
    /\ total_count \in TotalCounts
    /\ UtilIdle /\ SanIdle /\ ScoreIdle /\ PushIdle
    /\ ReqIdle /\ UsageIdle /\ CritIdle /\ LateIdle

\* A plausible slip: `<=` for `<`.
SourceWantsInclusive(collected, cap) == collected <= cap

\* len(all_profiles) < max_profiles
SourceWants(collected, cap) == collected < cap

\* the while condition; when it holds, sourcing_search calls leonar_request
SourceLoopHead ==
    /\ runPc = "loop"
    /\ page <= MaxPages
    /\ IF SourceWants(Len(all_profiles), max_profiles)
       THEN /\ runPc' = "request"
            /\ page_requests' = page_requests + 1
            /\ EnterRequest
       ELSE /\ runPc' = "slice"
            /\ UNCHANGED <<page_requests, reqVars>>
    /\ UNCHANGED <<usage_file, today, fs_writable, max_profiles, all_profiles,
                   page, notice, start_count, returned_total,
                   utilVars, sanVars, scoreVars, pushVars,
                   srcVars, usageVars, critVars, lateVars>>

\* leonar_request has returned: resp.json()["data"] and the rest of the turn
ReceivePage ==
    /\ runPc = "request"
    /\ reqPc = "returned"
    /\ \/ /\ runPc' = "error"
          /\ notice' = "search_error"
          /\ UNCHANGED <<all_profiles, page, returned_total, page_log>>
       \/ \E a \in SourcePageAnswers :
            /\ page_log' = Append(page_log, [page |-> page, n |-> a.n,
                                             has_more |-> a.has_more])
            /\ IF a.n = 0
               THEN /\ runPc' = "slice"
                    /\ UNCHANGED <<all_profiles, page, returned_total>>
               ELSE /\ all_profiles' = all_profiles \o SourceProfiles(page, a.n)
                    /\ returned_total' = returned_total + a.n
                    /\ IF a.has_more
                       THEN page' = page + 1 /\ runPc' = "loop"
                       ELSE page' = page /\ runPc' = "slice"
            /\ UNCHANGED notice
    /\ UNCHANGED <<usage_file, today, fs_writable, max_profiles, start_count,
                   page_requests, total_count, utilVars, sanVars, scoreVars,
                   pushVars, reqVars, usageVars, critVars, lateVars>>

\* A plausible slip: the exception is swallowed and the run goes on with the
\* profiles it has.
RequestFailedSwallowed ==
    /\ runPc = "request"
    /\ reqPc = "raised"
    /\ runPc' = "slice"
    /\ UNCHANGED <<usage_file, today, fs_writable, max_profiles, all_profiles,
                   page, notice, start_count, returned_total, page_requests,
                   utilVars, sanVars, scoreVars, pushVars, newVars>>

\* leonar_request has raised: except Exception, st.error, st.stop
RequestFailed ==
    /\ runPc = "request"
    /\ reqPc = "raised"
    /\ runPc' = "error"
    /\ notice' = "search_error"
    /\ UNCHANGED <<usage_file, today, fs_writable, max_profiles, all_profiles,
                   page, start_count, returned_total, page_requests,
                   utilVars, sanVars, scoreVars, pushVars, newVars>>

SourceNext ==
    \/ SourceLoopHead
    \/ SendRequest
    \/ ReceivePage
    \/ RequestFailed
    \/ SliceProfiles
    \/ StartScoring

SpecSource == SourceInit /\ [][SourceNext]_vars

\* the waits of the 429 branch and the statuses received, in order
BackoffSleeps == LET waited(x) == x.line = BackoffLine IN SelectSeq(sleeps, waited)
Throttled == LET is429(r) == r.status = 429 IN SelectSeq(responses, is429)

\* C11: a call makes at most 5 requests; after the k-th throttled response it
\* waits 2^k seconds (2, 4, 8, 16, 32); every response before the last is a
\* 429, so the first other response ends the loop; a call that has returned
\* returned a response that is not a 429; after 5 throttled responses the
\* call has raised the rate-limit error.
C11_RetryBackoff ==
    /\ Len(responses) <= 5
    /\ Len(BackoffSleeps) = Len(Throttled)
    /\ \A k \in 1..Len(BackoffSleeps) :
        BackoffSleeps[k].secs = <<2, 4, 8, 16, 32>>[k]
    /\ \A k \in 1..(Len(responses) - 1) : responses[k].status = 429
    /\ reqPc = "call" => Len(Throttled) = Len(responses)
    /\ reqPc = "returned" => responses[Len(responses)].status \notin {429, 403, 500}
    /\ Len(Throttled) = 5 <=> (reqPc = "raised" /\ req_error = <<"rate_limit">>)

\* five throttled responses: the waits were 2, 4, 8, 16, 32 and the call
\* raised the rate-limit error, which ended the search
C11_Witness ==
    /\ runPc = "error"
    /\ req_error = <<"rate_limit">>
    /\ Len(responses) = 5
    /\ [k \in 1..Len(BackoffSleeps) |-> BackoffSleeps[k].secs] = <<2, 4, 8, 16, 32>>

\* two throttled responses, then a page
C11_RecoverWitness ==
    /\ reqPc = "returned" /\ Len(responses) = 3
    /\ [k \in 1..Len(BackoffSleeps) |-> BackoffSleeps[k].secs] = <<2, 4>>


\* the profiles of the pages received, in order
ReceivedProfiles ==
    Flatten([k \in 1..Len(page_log) |-> SourceProfiles(page_log[k].page, page_log[k].n)])

\* C12: pages are requested in order 1, 2, ...; a page after the first is
\* requested only with fewer than max_profiles profiles collected and after a
\* page that was not empty and said has_more; the list retrieved is the first
\* max_profiles profiles of the pages received, in order.
C12_SourcePagination ==
    /\ \A k \in 1..Len(page_log) : page_log[k].page = k
    /\ runPc = "request" =>
        /\ page = page_requests
        /\ page = Len(page_log) + 1
        /\ Len(all_profiles) < max_profiles
        /\ page > 1 => page_log[page - 1].n > 0 /\ page_log[page - 1].has_more
    /\ runPc \in {"retrieved", "scoring", "no_profiles"} =>
        /\ Len(all_profiles) <= max_profiles
        /\ all_profiles =
             SubSeq(ReceivedProfiles, 1,
                    IF Len(ReceivedProfiles) < max_profiles
                    THEN Len(ReceivedProfiles) ELSE max_profiles)

\* 30 profiles over pages of 25 and 5, the second without has_more, under a
\* cap they do not reach: two requests and the 30 profiles
C12_Witness ==
    /\ runPc = "retrieved"
    /\ page_log = <<[page |-> 1, n |-> 25, has_more |-> TRUE],
                    [page |-> 2, n |-> 5, has_more |-> FALSE]>>
    /\ page_requests = 2
    /\ Len(all_profiles) = 30

\* the pages hold more than the cap: the list is cut to the cap
C12_CapWitness ==
    /\ runPc = "retrieved"
    /\ Len(ReceivedProfiles) > max_profiles
    /\ Len(all_profiles) = max_profiles

\* C18: a response that is neither a success nor a 429 is the last of its
\* call, which raises at once: the message of the code when the code has one,
\* the raw status and code otherwise; the search then stops in the error
\* state with no further page request, and nothing follows the error state.
C18_ErrorAborts ==
    /\ [](\A k \in 1..Len(responses) :
            (~Ok(responses[k]) /\ responses[k].status # 429) =>
                /\ k = Len(responses)
                /\ reqPc = "raised"
                /\ IF responses[k].body \in KnownCodes
                   THEN req_error = <<"kind", responses[k].body>>
                   ELSE /\ req_error[1] = "raw"
                        /\ req_error[2] = responses[k].status)
    /\ [][/\ (runPc = "request" /\ reqPc = "raised") =>
                (runPc' = "error" /\ page_requests' = page_requests)
          /\ runPc # "error"]_vars

\* the second page's request was throttled once and then refused with a code
\* that has a message: the search has stopped
C18_Witness ==
    /\ runPc = "error"
    /\ page_requests = 2
    /\ Len(responses) = 2
    /\ req_error = <<"kind", "not_found">>
    /\ Len(all_profiles) = PageSize

\* a code without a message
C18_RawWitness ==
    /\ runPc = "error"
    /\ req_error = <<"raw", 500, "server_error">>


(***************************************************************************)
(* Phase 2 in a session that holds the results of an earlier run           *)
(***************************************************************************)
\* the ranked list an earlier, completed run left in the session
PriorRanked ==
    <<[profile_id |-> 101, idx |-> 1, score |-> 10, justification |-> <<"earlier run">>]>>

\* Phase 2 begins: the session is empty, or holds an earlier run's ranked
\* list, with scoring_done as that run set it or as a later analysis of the
\* brief reset it.
RescoreInit ==
    /\ filtered_profiles \in FilteredLists
    /\ all_scores = <<>> /\ batch_i = 0
    /\ \E session \in {<<<<>>, FALSE>>, <<PriorRanked, TRUE>>, <<PriorRanked, FALSE>>} :
          scored_profiles = session[1] /\ scoring_done = session[2]
    /\ scorePc = "scoring" /\ model_calls = <<>>
    /\ UtilIdle /\ SanIdle /\ RunIdle /\ PushIdle /\ NewIdle

SpecRescore == RescoreInit /\ [][ScoringNext]_vars

\* C13: the step in which a batch fails leaves the session's scored_profiles
\* and scoring_done as they were; nothing follows it (no later batch, no
\* merge); and whenever scoring_done is true, scored_profiles is the earlier
\* run's list or the list of this run, made after every batch was scored.
C13_ParseFailureAborts ==
    /\ [][/\ scorePc' = "scoring_error" =>
                (scored_profiles' = scored_profiles /\ scoring_done' = scoring_done)
          /\ scorePc # "scoring_error"]_vars
    /\ [](scoring_done =>
            \/ scored_profiles = PriorRanked
            \/ /\ scorePc = "results"
               /\ Flatten(model_calls) = filtered_profiles
               /\ Len(model_calls) = (Len(filtered_profiles) + batch_size - 1) \div batch_size
               /\ Len(scored_profiles) = Len(filtered_profiles))

\* the second batch failed after the first was scored: the session still
\* holds the earlier run's list
C13_Witness ==
    /\ scorePc = "scoring_error"
    /\ Len(model_calls) = 2
    /\ all_scores # <<>>
    /\ scoring_done
    /\ scored_profiles = PriorRanked


\* C14: the step in which add_note_to_contact raises leaves the push in the
\* notes loop; once a note has failed, every later contact id still gets its
\* attempt and the added count is not touched; the push is never in the
\* error state after a failed note, the loop can always go on, and at the
\* success state every contact id has had its attempt.
C14_NoteFailureSwallowed ==
    /\ [][/\ (note_failed' /\ ~note_failed) => pushPc' = "notes"
          /\ (pushPc = "notes" /\ note_failed /\ note_idx < Len(contact_ids)) =>
                /\ pushPc' = "notes"
                /\ note_idx' = note_idx + 1
                /\ Len(note_log') = Len(note_log) + 1
                /\ note_log'[Len(note_log')].contact_id = contact_ids[note_idx + 1]
          /\ pushPc = "notes" => added_total' = added_total]_vars
    /\ [](note_failed => pushPc \in {"notes", "pushed"})
    /\ [](pushPc = "notes" => ENABLED (AddNote \/ FinishPush))
    /\ []((pushPc = "pushed" /\ note_failed) => Len(note_log) = Len(contact_ids))

\* a note failed, every contact id had its attempt and the push ended in the
\* success state with a count of added profiles
C14_Witness ==
    /\ pushPc = "pushed"
    /\ note_failed
    /\ Len(contact_ids) >= 2
    /\ Len(note_log) = Len(contact_ids)
    /\ added_total >= 2


\* C15: the ranked list is in non-increasing order of score, and two profiles
\* with the same score are in the order they had in the filtered list.
C15_SortedStable ==
    scoring_done =>
        \A k, m \in 1..Len(scored_profiles) :
            k < m =>
                /\ scored_profiles[k].score >= scored_profiles[m].score
                /\ scored_profiles[k].score = scored_profiles[m].score =>
                       scored_profiles[k].idx < scored_profiles[m].idx

\* a ranked list that is not in the filtered list's order, with profiles of
\* equal score and profiles of different scores
C15_Witness ==
    /\ scoring_done
    /\ Len(scored_profiles) >= 4
    /\ scored_profiles[1].idx # 1
    /\ \E k \in 1..(Len(scored_profiles) - 1) :
        scored_profiles[k].score = scored_profiles[k + 1].score
    /\ \E k \in 1..(Len(scored_profiles) - 1) :
        scored_profiles[k].score > scored_profiles[k + 1].score


(***************************************************************************)
(* The usage counter on any content of the usage file                      *)
(***************************************************************************)
MaxUsageOps == 3

\* What _USAGE_FILE may hold besides UsageFiles: valid JSON that is not an
\* object ("not_object": a list, a number, null), and an object with a date
\* and no count ("no_count").
AnyUsageFiles ==
    UsageFiles
    \cup {[kind |-> "not_object", date |-> 0, count |-> 0]}
    \cup [kind : {"no_count"}, date : {0, 1}, count : {0}]

\* _load_usage raises: data.get on a value that is not a dict is an
\* AttributeError, which `except (json.JSONDecodeError, KeyError)` lets pass
LoadRaises(file) == file.kind = "not_object"

\* _load_usage returns the file's object, which has no "count": the
\* subscript in get_linkedin_count / add_linkedin_count is a KeyError
CountMissing(file, day) == file.kind = "no_count" /\ file.date = day

\* a call of get_linkedin_count() or add_linkedin_count(n) raises
CounterRaises(file, day) == LoadRaises(file) \/ CountMissing(file, day)

UsageInit ==
    /\ usage_file \in AnyUsageFiles
    /\ today = 1
    /\ fs_writable \in BOOLEAN
    /\ max_profiles = 0 /\ all_profiles = <<>> /\ page = 0
    /\ runPc = "idle" /\ notice = "none"
    /\ start_count = 0 /\ returned_total = 0 /\ page_requests = 0
    /\ usagePc = "ready" /\ usage_out = [op |-> "none", value |-> 0]
    /\ usage_ops = 0
    /\ UtilIdle /\ SanIdle /\ ScoreIdle /\ PushIdle
    /\ ReqIdle /\ SrcIdle /\ CritIdle /\ LateIdle

\* get_linkedin_count()
ReadCount ==
    /\ usage_ops < MaxUsageOps
    /\ usage_ops' = usage_ops + 1
    /\ IF CounterRaises(usage_file, today)
       THEN usagePc' = "raised" /\ usage_out' = [op |-> "get", value |-> 0]
       ELSE /\ usagePc' = "returned"
            /\ usage_out' = [op |-> "get", value |-> get_linkedin_count(usage_file, today)]
    /\ UNCHANGED <<usage_file, today, fs_writable, max_profiles, all_profiles,
                   page, runPc, notice, start_count, returned_total,
                   page_requests, utilVars, sanVars, scoreVars, pushVars,
                   reqVars, srcVars, critVars, lateVars>>

\* add_linkedin_count(n)
AddCount ==
    /\ usage_ops < MaxUsageOps
    /\ usage_ops' = usage_ops + 1
    /\ \E n \in {PartialPage, PageSize} :
        IF CounterRaises(usage_file, today)
        THEN /\ usagePc' = "raised" /\ usage_out' = [op |-> "add", value |-> n]
             /\ UNCHANGED usage_file
        ELSE /\ usagePc' = "returned" /\ usage_out' = [op |-> "add", value |-> n]
             /\ usage_file' = add_linkedin_count(usage_file, today, fs_writable, n)
    /\ UNCHANGED <<today, fs_writable, max_profiles, all_profiles,
                   page, runPc, notice, start_count, returned_total,
                   page_requests, utilVars, sanVars, scoreVars, pushVars,
                   reqVars, srcVars, critVars, lateVars>>

UsageNext == ReadCount \/ AddCount

SpecUsage == UsageInit /\ [][UsageNext]_vars

\* the file holds no usable count of today
NoCountOfToday(file, day) ==
    \/ file.kind \in {"missing", "corrupt", "not_object"}
    \/ file.date # day
    \/ file.kind = "no_count"

\* C16: no counter call raises, whatever the file holds and whether or not it
\* can be written; and a read returns 0 when the file is missing, is not
\* JSON, is JSON of another shape or is dated another day (which is also what
\* a read finds after an increment that could not be written).
C16_CounterTolerant ==
    /\ usagePc # "raised"
    /\ (usage_out.op = "get" /\ NoCountOfToday(usage_file, today)) =>
            usage_out.value = 0


(***************************************************************************)
(* Step 2: "Analyser le brief" and the criteria form                       *)
(***************************************************************************)
MaxAnalyses == 2

\* the keys of the criteria the form and the search read
CriteriaKeys == {"job_titles", "locations", "years_experience", "keywords", "summary"}

\* What extract_search_criteria may do: raise (the model's text is not JSON,
\* or the call fails), or return the parsed object, which has any of the keys.
ExtractAnswers ==
    {[raised |-> TRUE, keys |-> {}]}
    \cup [raised : {FALSE}, keys : SUBSET CriteriaKeys]

\* the criteria form: each value is criteria.get(key, default), so the keys
\* the criteria lacks are shown with their default
FormDefaults(criteria) ==
    IF criteria.present THEN CriteriaKeys \ criteria.keys ELSE {}

CritInit ==
    /\ job_desc_given \in BOOLEAN
    /\ session_criteria \in {NoCriteria, [present |-> TRUE, keys |-> CriteriaKeys]}
    /\ critPc = "ready"
    /\ crit_calls = 0
    /\ crit_notice = "none"
    /\ form_defaults = {}
    /\ scoring_done \in BOOLEAN
    /\ filtered_profiles = <<>> /\ all_scores = <<>> /\ batch_i = 0
    /\ scored_profiles = <<>> /\ scorePc = "idle" /\ model_calls = <<>>
    /\ UtilIdle /\ SanIdle /\ RunIdle /\ PushIdle
    /\ ReqIdle /\ SrcIdle /\ UsageIdle /\ LateIdle

\* a script run in which the button is pressed: the handler, then the form
AnalyseBrief ==
    /\ critPc = "ready"
    /\ crit_calls < MaxAnalyses
    /\ IF ~job_desc_given
       THEN /\ crit_notice' = "job_desc_missing"
            /\ UNCHANGED <<session_criteria, crit_calls, scoring_done>>
       ELSE /\ crit_calls' = crit_calls + 1
            /\ \E answer \in ExtractAnswers :
                IF answer.raised
                THEN /\ crit_notice' = "error"
                     /\ UNCHANGED <<session_criteria, scoring_done>>
                ELSE /\ session_criteria' = [present |-> TRUE, keys |-> answer.keys]
                     /\ scoring_done' = FALSE
                     /\ crit_notice' = "success"
    /\ form_defaults' = FormDefaults(session_criteria')
    /\ UNCHANGED <<job_desc_given, critPc, filtered_profiles, all_scores, batch_i,
                   scored_profiles, scorePc, model_calls,
                   utilVars, sanVars, runVars, pushVars,
                   reqVars, srcVars, usageVars, lateVars>>

\* the user fills in or empties the job description
EditJobDesc ==
    /\ critPc = "ready"
    /\ job_desc_given' = ~job_desc_given
    /\ UNCHANGED <<session_criteria, critPc, crit_calls, crit_notice,
                   form_defaults, utilVars, sanVars, runVars, scoreVars,
                   pushVars, reqVars, srcVars, usageVars, lateVars>>

CritNext == AnalyseBrief \/ EditJobDesc

SpecCriteria == CritInit /\ [][CritNext]_vars

\* C17: an extraction succeeds and stores criteria only when the response is
\* JSON with every required key: criteria in the session have all of them,
\* and the form fills no default.
C17_ExtractionFails ==
    /\ session_criteria.present => session_criteria.keys = CriteriaKeys
    /\ form_defaults = {}


(***************************************************************************)
(* deduplicate_profiles on profiles that carry a profile_id                *)
(***************************************************************************)
MaxDedupIdLen == 3

\* Retrieved profiles with their profile_id: the provider may return a
\* profile again on a later page, and a profile may lack a URL or a name.
DedupIdProfiles ==
    [profile_id : {"p1", "p2"},
     linkedin_url : {<<>>, <<"u">>, <<"v">>},
     first_name : {NoneVal, <<"a">>},
     last_name : {NoneVal},
     location : {NoneVal}]

DedupIdInit ==
    /\ profiles \in SeqsUpTo(DedupIdProfiles, MaxDedupIdLen)
    /\ existing_entries = <<>> /\ region = <<>>
    /\ unique = <<>> /\ new_profiles = <<>> /\ skipped = 0
    /\ matched = <<>> /\ excluded = <<>> /\ utilPc = "input"
    /\ SanIdle /\ RunIdle /\ ScoreIdle /\ PushIdle /\ NewIdle

SpecDedupIds == DedupIdInit /\ [][Deduplicate]_vars

\* C19: after deduplication no two profiles of the list have the same
\* profile_id.
C19_UniqueProfileId ==
    utilPc = "done" =>
        \A i, j \in 1..Len(unique) :
            i < j => unique[i].profile_id # unique[j].profile_id


\* C20: every scored profile of a completed scoring phase has an integer
\* score from 0 to 10, whatever the model answered.
C20_ScoreInRange ==
    scoring_done =>
        \A k \in 1..Len(scored_profiles) : scored_profiles[k].score \in 0..10


(***************************************************************************)
(* The provider calls made with requests directly: add_profiles_to_project,*)
(* get_project_entries, add_note_to_contact                                *)
(***************************************************************************)
\* limit=50 and offset += 50
EntriesLimit == 50

\* the pages of entries a project may have
MaxEntryPages == 3

PlainFunctions ==
    {"add_profiles_to_project", "get_project_entries", "add_note_to_contact"}

\* what the body of an entries response may hold: "data" with n entries and
\* meta.has_more
EntriesAnswers == [n : {0, PartialPage, EntriesLimit}, has_more : BOOLEAN]

PlainInit ==
    /\ plain_call \in PlainFunctions
    /\ plain_responses = <<>>
    /\ offset = 0
    /\ all_entries = 0
    /\ plainPc = "call"
    /\ UtilIdle /\ SanIdle /\ RunIdle /\ ScoreIdle /\ PushIdle
    /\ ReqIdle /\ SrcIdle /\ UsageIdle /\ CritIdle /\ SessIdle /\ ProjIdle

\* requests.post and resp.raise_for_status()
PostOnce ==
    /\ plainPc = "call"
    /\ plain_call \in {"add_profiles_to_project", "add_note_to_contact"}
    /\ \E resp \in Responses :
        /\ plain_responses' = Append(plain_responses, resp)
        /\ plainPc' = IF Ok(resp) THEN "returned" ELSE "raised"
    /\ UNCHANGED <<plain_call, offset, all_entries, utilVars, sanVars, runVars,
                   scoreVars, pushVars, reqVars, srcVars, usageVars, critVars,
                   sessVars, projVars>>

\* one turn of the while loop of get_project_entries; each break returns
\* all_entries
GetEntriesPage ==
    /\ plainPc = "call"
    /\ plain_call = "get_project_entries"
    /\ offset < EntriesLimit * MaxEntryPages
    /\ \E resp \in Responses :
        /\ plain_responses' = Append(plain_responses, resp)
        /\ IF ~Ok(resp)
           THEN /\ plainPc' = "returned"
                /\ UNCHANGED <<offset, all_entries>>
           ELSE \E a \in EntriesAnswers :
                  IF a.n = 0
                  THEN /\ plainPc' = "returned"
                       /\ UNCHANGED <<offset, all_entries>>
                  ELSE /\ all_entries' = all_entries + a.n
                       /\ IF a.has_more
                          THEN offset' = offset + EntriesLimit /\ UNCHANGED plainPc
                          ELSE plainPc' = "returned" /\ UNCHANGED offset
    /\ UNCHANGED <<plain_call, utilVars, sanVars, runVars, scoreVars, pushVars,
                   reqVars, srcVars, usageVars, critVars, sessVars, projVars>>

PlainNext == PostOnce \/ GetEntriesPage

SpecPlainCalls == PlainInit /\ [][PlainNext]_vars

\* the throttled responses of the call
PlainThrottled == LET is429(r) == r.status = 429 IN SelectSeq(plain_responses, is429)

\* C21: add_profiles_to_project, get_project_entries and add_note_to_contact
\* retry on a 429: a throttled response ends the call only when it is the
\* fifth throttled response, which leonar_request's loop gives up at.
C21_PlainCallsRetry ==
    \A k \in 1..Len(plain_responses) :
        (plain_responses[k].status = 429 /\ k = Len(plain_responses)) =>
            \/ plainPc = "call"
            \/ Len(PlainThrottled) = RetryAttempts


(***************************************************************************)
(* Two sessions (tabs, processes) adding to the usage counter of one file  *)
(***************************************************************************)
Sessions == {1, 2}

\* add_linkedin_count calls per session
MaxSessionAdds == 2

SessInit ==
    /\ usage_file \in {[kind |-> "missing", date |-> 0, count |-> 0],
                       [kind |-> "data", date |-> 0, count |-> PageSize],
                       [kind |-> "data", date |-> 1, count |-> PageSize]}
    /\ today = 1
    /\ fs_writable \in BOOLEAN
    /\ max_profiles = 0 /\ all_profiles = <<>> /\ page = 0
    /\ runPc = "idle" /\ notice = "none"
    /\ start_count = 0 /\ returned_total = 0 /\ page_requests = 0
    /\ sess_pc = [s \in Sessions |-> "ready"]
    /\ sess_data = [s \in Sessions |-> [date |-> 0, count |-> 0]]
    /\ sess_n = [s \in Sessions |-> <<>>]
    /\ UtilIdle /\ SanIdle /\ ScoreIdle /\ PushIdle
    /\ ReqIdle /\ SrcIdle /\ UsageIdle /\ CritIdle /\ PlainIdle /\ ProjIdle

\* add_linkedin_count(n), line 46: data = _load_usage()
SessLoad(s) ==
    /\ sess_pc[s] = "ready"
    /\ Len(sess_n[s]) < MaxSessionAdds
    /\ \E n \in {PartialPage, PageSize} :
        sess_n' = [sess_n EXCEPT ![s] = Append(@, n)]
    /\ sess_data' = [sess_data EXCEPT ![s] = load_usage(usage_file, today)]
    /\ sess_pc' = [sess_pc EXCEPT ![s] = "loaded"]
    /\ UNCHANGED <<runVars, utilVars, sanVars, scoreVars, pushVars, reqVars,
                   srcVars, usageVars, critVars, plainVars, projVars>>

\* add_linkedin_count(n), lines 47-48: data["count"] += n, _save_usage(data)
SessSave(s) ==
    /\ sess_pc[s] = "loaded"
    /\ LET n == sess_n[s][Len(sess_n[s])]
           data == [date |-> sess_data[s].date, count |-> sess_data[s].count + n]
       IN /\ sess_data' = [sess_data EXCEPT ![s] = data]
          /\ usage_file' = save_usage(usage_file, data, fs_writable)
    /\ sess_pc' = [sess_pc EXCEPT ![s] = "ready"]
    /\ UNCHANGED <<today, fs_writable, max_profiles, all_profiles, page, runPc,
                   notice, start_count, returned_total, page_requests, sess_n,
                   utilVars, sanVars, scoreVars, pushVars, reqVars, srcVars,
                   usageVars, critVars, plainVars, projVars>>

SessNext == \E s \in Sessions : SessLoad(s) \/ SessSave(s)

SpecTwoSessions == SessInit /\ [][SessNext]_vars

\* C22: whatever the interleaving of the two sessions' reads and writes, the
\* count get_linkedin_count() returns for the day never decreases.
C22_CountNeverDecreases ==
    [][get_linkedin_count(usage_file', today')
           >= get_linkedin_count(usage_file, today)]_vars


(***************************************************************************)
(* C23: what makes deduplicate_profiles drop a profile                     *)
(***************************************************************************)
SameUrl(a, b) == ProfileUrl(a) # <<>> /\ ProfileUrl(a) = ProfileUrl(b)

SameName(a, b) == NonBlank(ProfileName(a)) /\ ProfileName(a) = ProfileName(b)

\* one key per profile: the URL when it is not empty, the name otherwise
SameKey(a, b) ==
    IF ProfileUrl(a) # <<>> /\ ProfileUrl(b) # <<>> THEN SameUrl(a, b)
    ELSE IF ProfileUrl(a) = <<>> /\ ProfileUrl(b) = <<>> THEN SameName(a, b)
    ELSE FALSE

\* the positions among the first k of ps that are kept, in order, when a
\* profile is dropped exactly if an earlier kept profile has the same key
RECURSIVE KeptByKey(_, _)
KeptByKey(ps, k) ==
    IF k = 0 THEN <<>>
    ELSE LET kept == KeptByKey(ps, k - 1) IN
         IF \E i \in 1..Len(kept) : SameKey(ps[kept[i]], ps[k])
         THEN kept ELSE Append(kept, k)

\* the same when a profile is dropped exactly if an earlier kept profile has
\* the same non-empty URL or the same non-blank normalized name
RECURSIVE KeptByUrlOrName(_, _)
KeptByUrlOrName(ps, k) ==
    IF k = 0 THEN <<>>
    ELSE LET kept == KeptByUrlOrName(ps, k - 1) IN
         IF \E i \in 1..Len(kept) :
                SameUrl(ps[kept[i]], ps[k]) \/ SameName(ps[kept[i]], ps[k])
         THEN kept ELSE Append(kept, k)

ProfilesAt(ps, positions) == [i \in 1..Len(positions) |-> ps[positions[i]]]

\* C23 as stated: the profiles kept are those no earlier kept profile shares
\* the key of, the key being the URL when not empty and the name otherwise (so
\* two profiles with different non-empty URLs are both kept, whatever their
\* names).
C23_KeyedByUrlElseName ==
    utilPc = "done" =>
        unique = ProfilesAt(profiles, KeptByKey(profiles, Len(profiles)))

\* C23, amended: a profile is dropped exactly when an earlier kept profile has
\* the same non-empty URL or the same non-blank normalized name; a profile
\* with an empty URL and a blank name is never dropped.
C23_DroppedOnUrlOrName ==
    utilPc = "done" =>
        /\ unique = ProfilesAt(profiles, KeptByUrlOrName(profiles, Len(profiles)))
        /\ \A k \in 1..Len(profiles) :
            (ProfileUrl(profiles[k]) = <<>> /\ ~NonBlank(ProfileName(profiles[k])))
                => \E i \in 1..Len(unique) : unique[i] = profiles[k]

\* two profiles with different URLs and the same name, then one with no URL
\* and a blank name: the second is dropped, the third is kept
C23_Witness ==
    /\ utilPc = "done"
    /\ Len(profiles) = 3 /\ Len(unique) = 2
    /\ ProfileUrl(profiles[1]) # <<>> /\ ProfileUrl(profiles[2]) # <<>>
    /\ ProfileUrl(profiles[1]) # ProfileUrl(profiles[2])
    /\ SameName(profiles[1], profiles[2])
    /\ ProfileUrl(profiles[3]) = <<>> /\ ~NonBlank(ProfileName(profiles[3]))
    /\ unique = <<profiles[1], profiles[3]>>


\* C24: an entry of a parsed answer that lacks profile_id, score or
\* justification ends the run in the handled scoring failure: the run never
\* ends in an exception outside the scoring handler, and never shows results
\* from an answer that lacked a key.
C24_MissingKeyHandled ==
    /\ scorePc # "crashed"
    /\ scorePc = "results" =>
        \A k \in 1..Len(all_scores) : all_scores[k].lacks = "none"


(***************************************************************************)
(* A run after the search: the filters, Phase 2, the results and the push  *)
(***************************************************************************)
\* the longest list a search leaves
MaxRunProfiles == 54

Digits == <<"0", "1", "2", "3", "4", "5", "6", "7", "8", "9">>
TwoDigits(i) == <<Digits[(i \div 10) + 1], Digits[(i % 10) + 1]>>

\* a retrieved profile: its profile_id, the profile whose URL it carries, its
\* location
RunProfile(i, url_of, loc) ==
    [profile_id |-> i,
     linkedin_url |-> <<"u">> \o TwoDigits(url_of),
     first_name |-> <<"n">> \o TwoDigits(i),
     last_name |-> NoneVal,
     location |-> loc]

\* The lists a search may leave: one profile, two scoring batches, or more
\* than one write batch; the second profile may carry the first one's URL
\* and the third may be located elsewhere.
RetrievedLists ==
    {[i \in 1..n |->
        RunProfile(i, IF dup /\ i = 2 THEN 1 ELSE i,
                   IF far /\ i = 3 THEN <<"b", "c">> ELSE NoneVal)] :
        n \in {1, batch_size + 1, MaxRunProfiles}, dup \in BOOLEAN, far \in BOOLEAN}

\* the project's entries: none, or the contact made of the last profile
RunEntries(ps) ==
    {<<>>,
     <<[contact |-> [linkedin_profile |-> ps[Len(ps)].linkedin_url,
                     first_name |-> NoneVal, last_name |-> NoneVal]]>>}

\* the profiles as Phase 2 holds them: idx stands for the remaining fields
Phase2Profiles(ps) ==
    [i \in 1..Len(ps) |-> [profile_id |-> ps[i].profile_id, idx |-> ps[i].profile_id]]

\* a model that answers every profile of the batch, 8 and 4 in turn
PlainAnswers(batch, k0) == {BatchEntries(batch, 8, 4, k0)}

\* the search of a Leonar Source / CRM run has ended with profiles, in a fresh
\* session; `profiles` keeps the list as retrieved
PipelineInit ==
    /\ all_profiles \in RetrievedLists
    /\ profiles = all_profiles
    /\ existing_entries \in RunEntries(all_profiles)
    /\ region \in {<<>>, <<"a", "B", "a">>}
    /\ unique = <<>> /\ new_profiles = <<>> /\ skipped = 0
    /\ matched = <<>> /\ excluded = <<>> /\ utilPc = "idle"
    /\ usage_file = [kind |-> "missing", date |-> 0, count |-> 0]
    /\ today = 1 /\ fs_writable = TRUE
    /\ max_profiles = SliderStep * 3
    /\ page_requests = (Len(all_profiles) + PageSize - 1) \div PageSize
    /\ page = page_requests
    /\ start_count = 0 /\ returned_total = Len(all_profiles)
    /\ runPc = "retrieved" /\ notice = "none"
    /\ min_score_push \in {0, 6}
    /\ profiles_to_push = <<>> /\ contact_ids = <<>> /\ added_total = 0
    /\ push_i = 0 /\ note_idx = 0 /\ write_calls = <<>> /\ note_log = <<>>
    /\ note_failed = FALSE /\ pushPc = "idle"
    /\ SanIdle /\ ScoreIdle /\ NewIdle

\* DEDOUBLONNAGE
DedupStep ==
    /\ runPc = "retrieved"
    /\ all_profiles' = deduplicate_profiles(all_profiles)
    /\ runPc' = "deduplicated"
    /\ UNCHANGED <<usage_file, today, fs_writable, max_profiles, page, notice,
                   start_count, returned_total, page_requests,
                   utilVars, sanVars, scoreVars, pushVars, newVars>>

\* EXCLUSION PROFILS EXISTANTS: get_project_entries raises (st.warning), or
\* returns the entries, which are used when there are any
ExcludeStep ==
    /\ runPc = "deduplicated"
    /\ \/ /\ notice' = "existing_error"
          /\ UNCHANGED <<all_profiles, skipped>>
       \/ /\ IF existing_entries # <<>>
             THEN /\ all_profiles' =
                        exclude_existing_profiles(all_profiles, existing_entries)[1]
                  /\ skipped' =
                        exclude_existing_profiles(all_profiles, existing_entries)[2]
             ELSE UNCHANGED <<all_profiles, skipped>>
          /\ UNCHANGED notice
    /\ runPc' = "excluded"
    /\ UNCHANGED <<usage_file, today, fs_writable, max_profiles, page,
                   start_count, returned_total, page_requests,
                   profiles, existing_entries, region, unique, new_profiles,
                   matched, excluded, utilPc,
                   sanVars, scoreVars, pushVars, newVars>>

\* FILTRE LOCALISATION, and the stop when no profile is left
LocationStep ==
    /\ runPc = "excluded"
    /\ IF region # <<>>
       THEN /\ all_profiles' = filter_by_location(all_profiles, region)[1]
            /\ excluded' = filter_by_location(all_profiles, region)[2]
       ELSE UNCHANGED <<all_profiles, excluded>>
    /\ IF all_profiles' = <<>>
       THEN runPc' = "none_left" /\ notice' = "none_left"
       ELSE runPc' = "filtered" /\ UNCHANGED notice
    /\ UNCHANGED <<usage_file, today, fs_writable, max_profiles, page,
                   start_count, returned_total, page_requests,
                   profiles, existing_entries, region, unique, new_profiles,
                   skipped, matched, utilPc,
                   sanVars, scoreVars, pushVars, newVars>>

\* A plausible slip: Phase 2 is begun right after the deduplication.
StartPhase2Early ==
    /\ runPc = "deduplicated"
    /\ runPc' = "phase2"
    /\ filtered_profiles' = Phase2Profiles(all_profiles)
    /\ all_scores' = <<>>
    /\ batch_i' = 0
    /\ scorePc' = "scoring"
    /\ UNCHANGED <<usage_file, today, fs_writable, max_profiles, all_profiles,
                   page, notice, start_count, returned_total, page_requests,
                   scored_profiles, scoring_done, model_calls,
                   utilVars, sanVars, pushVars, newVars>>

\* PHASE 2: all_scores = [], the loop is entered
StartPhase2 ==
    /\ runPc = "filtered"
    /\ runPc' = "phase2"
    /\ filtered_profiles' = Phase2Profiles(all_profiles)
    /\ all_scores' = <<>>
    /\ batch_i' = 0
    /\ scorePc' = "scoring"
    /\ UNCHANGED <<usage_file, today, fs_writable, max_profiles, all_profiles,
                   page, notice, start_count, returned_total, page_requests,
                   scored_profiles, scoring_done, model_calls,
                   utilVars, sanVars, pushVars, newVars>>

\* one turn of the scoring loop of the run: score_profiles(batch) answers, or
\* raises
ScoreBatchOfRun ==
    /\ scorePc = "scoring"
    /\ batch_i < Len(filtered_profiles)
    /\ model_calls' = Append(model_calls, BatchAt(filtered_profiles, batch_i))
    /\ \/ /\ \E scores \in PlainAnswers(BatchAt(filtered_profiles, batch_i), batch_i) :
                all_scores' = all_scores \o scores
          /\ batch_i' = batch_i + batch_size
          /\ UNCHANGED scorePc
       \/ /\ scorePc' = "scoring_error"
          /\ UNCHANGED <<all_scores, batch_i>>
    /\ UNCHANGED <<filtered_profiles, scored_profiles, scoring_done,
                   utilVars, sanVars, runVars, pushVars, newVars>>

\* if st.session_state.get("scoring_done"): the results and the push button
ShowResults ==
    /\ scoring_done
    /\ pushPc = "idle"
    /\ pushPc' = "button"
    /\ UNCHANGED <<min_score_push, profiles_to_push, contact_ids, added_total,
                   push_i, note_idx, write_calls, note_log, note_failed,
                   utilVars, sanVars, runVars, scoreVars, newVars>>

PipelineNext ==
    \/ DedupStep
    \/ ExcludeStep
    \/ LocationStep
    \/ StartPhase2
    \/ ScoreBatchOfRun
    \/ MergeAndStore
    \/ ShowResults
    \/ PressPush
    \/ AddBatch
    \/ StartNotes
    \/ AddNote
    \/ FinishPush

SpecPipeline == PipelineInit /\ [][PipelineNext]_vars

\* what the three filters leave of the list retrieved
FiltersOutcome ==
    LET d == deduplicate_profiles(profiles)
        e == IF notice = "existing_error" \/ existing_entries = <<>>
             THEN d ELSE exclude_existing_profiles(d, existing_entries)[1]
    IN  IF region # <<>> THEN filter_by_location(e, region)[1] ELSE e

\* C25: the phases of a run follow one another.  A scoring call is made only
\* once the three filters have finished, on what they left; batch k + 1 is
\* sent only with the answers of batches 1..k received; a write call is made
\* only with scoring_done true and the scoring loop over; write batch k + 1
\* is sent only when batch k has returned; a note is attempted only when the
\* write loop is over, and no write call follows a note attempt.
C25_PhasesSequential ==
    /\ [][(model_calls = <<>> /\ model_calls' # <<>>) =>
                /\ runPc = "phase2"
                /\ filtered_profiles = Phase2Profiles(FiltersOutcome)]_vars
    /\ [](/\ model_calls # <<>> => runPc = "phase2"
          /\ \A k \in 1..Len(model_calls) :
                model_calls[k] = BatchAt(filtered_profiles, (k - 1) * batch_size)
          /\ Len(all_scores) =
                Len(Flatten(SubSeq(model_calls, 1, batch_i \div batch_size)))
          /\ Len(model_calls) =
                (batch_i \div batch_size) + (IF scorePc = "scoring_error" THEN 1 ELSE 0)
          /\ write_calls # <<>> =>
                /\ scoring_done
                /\ scorePc = "results"
                /\ batch_i >= Len(filtered_profiles)
          /\ Len(write_calls) =
                (push_i \div PushBatchSize) + (IF pushPc = "push_error" THEN 1 ELSE 0)
          /\ note_idx > 0 =>
                /\ pushPc \in {"notes", "pushed"}
                /\ push_i >= Len(profiles_to_push))
    /\ [][note_idx > 0 => write_calls' = write_calls]_vars

\* a run of 54 profiles of which each filter removed one: six scoring calls,
\* then two write calls, then the notes
C25_Witness ==
    /\ pushPc = "pushed"
    /\ Len(profiles) = MaxRunProfiles
    /\ Len(filtered_profiles) = MaxRunProfiles - 3
    /\ skipped = 1 /\ Len(excluded) = 1
    /\ Len(model_calls) = 6
    /\ Len(write_calls) = 2
    /\ note_idx = Len(contact_ids) /\ note_idx > PushBatchSize


\* C26: when no scoring call fails, n filtered profiles make ceil(n/10) model
\* calls; call j (from 0) holds the profiles at positions 10j .. min(10j+9,
\* n-1) in filtered order, so the calls together hold every profile once and
\* no call holds more than 10.
C26_ScoringBatches ==
    LET n == Len(filtered_profiles) IN
    /\ \A j \in 0..(Len(model_calls) - 1) :
        LET last == IF 10 * j + 9 < n - 1 THEN 10 * j + 9 ELSE n - 1 IN
        /\ Len(model_calls[j + 1]) = last - 10 * j + 1
        /\ Len(model_calls[j + 1]) <= 10
        /\ \A k \in 1..Len(model_calls[j + 1]) :
            model_calls[j + 1][k] = filtered_profiles[10 * j + k]
    /\ scorePc \in {"results", "crashed"} =>
        /\ Len(model_calls) = (n + 9) \div 10
        /\ Flatten(model_calls) = filtered_profiles

\* eleven profiles scored: two calls, of ten profiles and of one
C26_Witness ==
    /\ scorePc = "results"
    /\ Len(filtered_profiles) = 11
    /\ Len(model_calls) = 2
    /\ Len(model_calls[1]) = 10 /\ Len(model_calls[2]) = 1

\* ten profiles scored: one call
C26_FullBatchWitness ==
    /\ scorePc = "results"
    /\ Len(filtered_profiles) = 10
    /\ Len(model_calls) = 1


\* C27: the Source / CRM loop stops paging as soon as the profiles collected
\* reach the total_count the provider reports: no page is requested with
\* total_count profiles or more collected, even after a page with has_more
\* and under the cap.
C27_StopsAtTotalCount ==
    runPc = "request" => Len(all_profiles) < total_count


\* s holds, from position i, a ')' then whitespace or nothing, 'NOT', then
\* whitespace or nothing and a '('
BareNotAt(s, i) ==
    /\ s[i] = ")"
    /\ \E j \in (i + 1)..Len(s) : \E k \in (j + 3)..Len(s) :
        /\ \A m \in (i + 1)..(j - 1) : s[m] \in Whitespace
        /\ SubSeq(s, j, j + 2) = <<"N", "O", "T">>
        /\ \A m \in (j + 3)..(k - 1) : s[m] \in Whitespace
        /\ s[k] = "("

\* C28: what sanitize_boolean_query returns holds no '&', neither begins nor
\* ends with whitespace, holds no whitespace but single spaces apart from one
\* another, and holds no ')' followed, through whitespace or none, by 'NOT'
\* and a '('.
C28_SanitizerOutput ==
    sanCalls >= 1 =>
        /\ \A i \in 1..Len(q) : q[i] # "&"
        /\ q # <<>> => (q[1] \notin Whitespace /\ q[Len(q)] \notin Whitespace)
        /\ \A i \in 1..Len(q) :
            q[i] \in Whitespace =>
                /\ q[i] = " "
                /\ i < Len(q) => q[i + 1] \notin Whitespace
        /\ \A i \in 1..Len(q) : ~BareNotAt(q, i)

\* '\t )\t NOT(&' becomes ') AND NOT (and'
C28_Witness ==
    /\ sanCalls = 1
    /\ q_prev = <<"\t", " ", ")", "\t", " ", "N", "O", "T", "(", "&">>
    /\ q = <<")", " ", "A", "N", "D", " ", "N", "O", "T", " ", "(", "a", "n", "d">>


\* C29: every note attempted carries the score and the justification of the
\* profile its contact was made from, also when a batch returned fewer
\* contact ids than it had profiles.
C29_NoteOfOwnProfile ==
    \A k \in 1..Len(note_log) :
        \E i \in 1..Len(profiles_to_push) :
            /\ profiles_to_push[i].profile_id = note_log[k].contact_id
            /\ profiles_to_push[i].score = note_log[k].score
            /\ profiles_to_push[i].justification = note_log[k].justification

\* C30: when add_profiles_to_project raises for a write batch (a call of more
\* than one profile that brings no contact id has raised), the push goes to
\* its error state and stays there: no later batch has been or will be
\* submitted, the contact ids of the earlier batches stay as returned (their
\* profiles are in the project), and no note has been or will be attempted.
C30_LaterBatchFailure ==
    /\ [][(/\ Len(write_calls') > Len(write_calls)
            /\ Len(write_calls'[Len(write_calls')]) > 1
            /\ contact_ids' = contact_ids)
                => (pushPc' = "push_error" /\ push_i' = push_i)]_vars
    /\ [](pushPc = "push_error" =>
            /\ Len(write_calls) = (push_i \div PushBatchSize) + 1
            /\ Len(contact_ids) >= (PushBatchSize - 1) * (Len(write_calls) - 1)
            /\ note_idx = 0 /\ note_log = <<>> /\ ~note_failed)
    /\ [][pushPc = "push_error" => pushPc' = "push_error"]_vars
    /\ [][pushPc = "push_error" => UNCHANGED pushVars]_vars

\* the second of three batches raised: the first batch's contacts exist, no
\* third call was made and no note was attempted
C30_Witness ==
    /\ pushPc = "push_error"
    /\ Len(profiles_to_push) > 2 * PushBatchSize
    /\ Len(write_calls) = 2
    /\ Len(contact_ids) = PushBatchSize
    /\ note_log = <<>>


(***************************************************************************)
(* The LinkedIn loop with no limit on its turns                            *)
(***************************************************************************)
\* The request of one page as in SearchPage, for any number of pages: page
\* MaxPages stands for itself and every later page, and the histories
\* returned_total and page_requests are not kept, so that a turn of the loop
\* that changes nothing the loop reads leads back to the same state.
SearchAnyPage ==
    /\ runPc = "request"
    /\ \/ /\ runPc' = "error"
          /\ notice' = "search_error"
          /\ UNCHANGED <<usage_file, all_profiles, page>>
       \/ \E a \in PageAnswers :
            IF a.n = 0
            THEN /\ runPc' = "slice"
                 /\ UNCHANGED <<usage_file, all_profiles, page, notice>>
            ELSE /\ usage_file' = add_linkedin_count(usage_file, today, fs_writable,
                                                     CountedProfiles(a))
                 /\ all_profiles' = all_profiles \o ProfileList(a.n - a.flagged)
                 /\ IF a.has_more
                    THEN /\ page' = IF page < MaxPages THEN page + 1 ELSE page
                         /\ runPc' = "loop"
                    ELSE page' = page /\ runPc' = "slice"
                 /\ UNCHANGED notice
    /\ UNCHANGED <<today, fs_writable, max_profiles, start_count, returned_total,
                   page_requests, utilVars, sanVars, scoreVars, pushVars, newVars>>

LinkedInLoopNext ==
    \/ CheckDailyLimit
    \/ ResolveLocations
    \/ LoopHead
    \/ SearchAnyPage
    \/ SliceProfiles
    \/ StartScoring

\* the script goes on for as long as it has a next statement, and every
\* provider call returns or raises
SpecLinkedInLoop ==
    LinkedInInit /\ [][LinkedInLoopNext]_vars /\ WF_vars(LinkedInLoopNext)

\* C31: the LinkedIn loop ends after finitely many page requests: every run
\* comes to a state after the loop (the quota stop, the search error, no
\* profile found, or the list retrieved).
C31_LoopTerminates ==
    <>(runPc \in {"quota_stop", "error", "no_profiles", "retrieved", "scoring"})


(***************************************************************************)
(* One session: the project field, the runs and the pushes                 *)
(***************************************************************************)
MaxSessionRuns == 1
MaxSessionPushes == 2

\* the project ids the user types in "ID du projet"
Projects == {"A", "B"}

\* The ranked list a completed run on project pr stores: n profiles, each
\* one marked with the project it was retrieved for, the last scored 4 and
\* the others 8.
ScoredFor(pr, n) ==
    [i \in 1..n |->
        [profile_id |-> <<pr, i>>, idx |-> i,
         score |-> IF i = n THEN 4 ELSE 8,
         justification |-> <<"because", i>>]]

\* one profile, or one more than a push batch holds
RunSizes == {1, PushBatchSize + 1}

\* the criteria are in the session, so the project field is shown; nothing
\* has been scored yet
SessionInit ==
    /\ project_input \in Projects \cup {""}
    /\ session_project = NoProject
    /\ write_projects = <<>> /\ session_runs = 0 /\ session_pushes = 0
    /\ job_desc_given = TRUE
    /\ session_criteria = [present |-> TRUE, keys |-> CriteriaKeys]
    /\ critPc = "ready" /\ crit_calls = 0 /\ crit_notice = "none"
    /\ form_defaults = {}
    /\ scoring_done = FALSE
    /\ filtered_profiles = <<>> /\ all_scores = <<>> /\ batch_i = 0
    /\ scored_profiles = <<>> /\ scorePc = "idle" /\ model_calls = <<>>
    /\ min_score_push \in {0, 6}
    /\ profiles_to_push = <<>> /\ contact_ids = <<>> /\ added_total = 0
    /\ push_i = 0 /\ note_idx = 0 /\ write_calls = <<>> /\ note_log = <<>>
    /\ note_failed = FALSE /\ pushPc = "button"
    /\ UtilIdle /\ SanIdle /\ RunIdle
    /\ ReqIdle /\ SrcIdle /\ UsageIdle /\ PlainIdle /\ SessIdle

\* the user types another project id: the script runs again with no button
\* pressed, and writes nothing to the session
EditProject ==
    /\ session_criteria.present
    /\ \E pr \in (Projects \cup {""}) \ {project_input} : project_input' = pr
    /\ UNCHANGED <<session_project, write_projects, session_runs, session_pushes,
                   utilVars, sanVars, runVars, scoreVars, pushVars,
                   reqVars, srcVars, usageVars, critVars, plainVars, sessVars>>

\* A script run in which "Lancer recherche + scoring" is pressed: every
\* search, the existing entries and the scoring are those of
\* selected_project_id. The run stops before its end (the quota, an error,
\* no profile) and the session is as it was, or it comes to its end and
\* stores the ranked list, the project id and scoring_done.
RunSearchAndScore ==
    /\ session_criteria.present
    /\ project_input # ""
    /\ session_runs < MaxSessionRuns
    /\ \/ UNCHANGED <<scored_profiles, session_project, scoring_done, scorePc,
                      session_runs>>
       \/ /\ \E n \in RunSizes : scored_profiles' = ScoredFor(project_input, n)
          /\ session_runs' = session_runs + 1
          /\ session_project' = project_input
          /\ scoring_done' = TRUE
          /\ scorePc' = "results"
    /\ UNCHANGED <<project_input, write_projects, session_pushes,
                   filtered_profiles, all_scores, batch_i, model_calls,
                   utilVars, sanVars, runVars, pushVars,
                   reqVars, srcVars, usageVars, critVars, plainVars, sessVars>>

\* extract_search_criteria raises, or returns criteria with every key
CompleteAnswers == {a \in ExtractAnswers : a.raised \/ a.keys = CriteriaKeys}

\* "Analyser le brief" pressed again in this session, as in AnalyseBrief:
\* new criteria are stored and scoring_done is set to False, the stored
\* list and project id are left as they are. The calls are not counted
\* here, so the button can be pressed any number of times.
AnalyseBriefAgain ==
    /\ critPc = "ready"
    /\ job_desc_given
    /\ UNCHANGED crit_calls
    /\ \E answer \in CompleteAnswers :
        IF answer.raised
        THEN /\ crit_notice' = "error"
             /\ UNCHANGED <<session_criteria, scoring_done>>
        ELSE /\ session_criteria' = [present |-> TRUE, keys |-> answer.keys]
             /\ scoring_done' = FALSE
             /\ crit_notice' = "success"
    /\ form_defaults' = FormDefaults(session_criteria')
    /\ UNCHANGED <<job_desc_given, critPc, filtered_profiles, all_scores, batch_i,
                   scored_profiles, scorePc, model_calls,
                   utilVars, sanVars, runVars, pushVars,
                   reqVars, srcVars, usageVars, lateVars>>

\* A plausible slip: the push takes the project id from the field.
PushProjectIdOfField == project_input

\* project_id = st.session_state.get("selected_project_id")
PushProjectId == session_project

\* A script run in which the push button is pressed: the batch loop makes
\* its calls, all of them or those up to one that raises, each with
\* project_id. (The notes go to contacts and name no project.)
PushToProject ==
    /\ scoring_done
    /\ session_pushes < MaxSessionPushes
    /\ session_pushes' = session_pushes + 1
    /\ LET payload == ProfilesToPush(scored_profiles, min_score_push)
           batches == (Len(payload) + PushBatchSize - 1) \div PushBatchSize
       IN  \E made \in (IF batches = 0 THEN {0} ELSE 1..batches) :
             /\ write_calls' = write_calls \o
                    [k \in 1..made |-> PayloadBatch(payload, (k - 1) * PushBatchSize)]
             /\ write_projects' = write_projects \o
                    [k \in 1..made |-> [project_id |-> PushProjectId,
                                        stored |-> session_project,
                                        field |-> project_input]]
    /\ UNCHANGED <<project_input, session_project, session_runs,
                   min_score_push, profiles_to_push, contact_ids, added_total,
                   push_i, note_idx, note_log, note_failed, pushPc,
                   utilVars, sanVars, runVars, scoreVars,
                   reqVars, srcVars, usageVars, critVars, plainVars, sessVars>>

SessionNext ==
    EditProject \/ AnalyseBriefAgain \/ RunSearchAndScore \/ PushToProject

SpecSession == SessionInit /\ [][SessionNext]_vars

\* the project every profile of the list was retrieved for
RetrievedFor(ps, pr) == \A j \in 1..Len(ps) : ps[j].profile_id[1] = pr

\* C32: every add-to-project call is made with the project id the session
\* stored when the scoring completed, which is the project the profiles of
\* the call (and of the stored list) were retrieved for; and a script run
\* that changes the project field changes neither the stored project id nor
\* the stored scored profiles.
C32_PushTargetsStoredProject ==
    /\ [](/\ Len(write_projects) = Len(write_calls)
          /\ \A k \in 1..Len(write_projects) :
                /\ write_projects[k].project_id = write_projects[k].stored
                /\ write_projects[k].project_id \in Projects
                /\ RetrievedFor(write_calls[k], write_projects[k].project_id)
          /\ scoring_done => RetrievedFor(scored_profiles, session_project))
    /\ [][project_input' # project_input =>
            /\ session_project' = session_project
            /\ scored_profiles' = scored_profiles]_vars

\* two calls of one push were made for project A, the project of the
\* profiles they carry, while the field held B
C32_Witness ==
    /\ Len(write_projects) >= 2
    /\ write_projects[1].field = "B" /\ write_projects[1].project_id = "A"
    /\ write_projects[2].field = "B" /\ write_projects[2].project_id = "A"
    /\ Len(write_calls[1]) = PushBatchSize
    /\ RetrievedFor(write_calls[2], "A")
    /\ session_pushes = 1

====
